---- MODULE Spec2Model ----
(***************************************************************************)
(* A model of rkt's layered configuration resolution:                      *)
(*   - pkg/config: the directory walker and its kind/version dispatch,     *)
(*   - rkt/config: the stage0 parsers (auth, dockerAuth, paths, stage1),   *)
(*     their per-index accumulators, the merge (propagateConfig) and the   *)
(*     new/old configuration directory switch,                             *)
(*   - networking/config: the network parsers and their merge.             *)
(* Strings that the code inspects character-wise (paths, file names) are   *)
(* sequences of small tokens; other strings are TLA+ strings.              *)
(***************************************************************************)
EXTENDS Integers, Sequences, FiniteSets, TLC

VARIABLES
    fs,          \* the directory snapshot: the set of files below the roots
    pc,          \* position of GetConfigFrom
    idx,         \* index of the next toplevel directory WalkDirectories enters
    todo,        \* candidate files of the entered directory not yet read
    curSub,      \* subdirectory filepath.Walk is currently in
    err,         \* the error GetConfigFrom returns ("" when nil)
    log,         \* history: the files parseConfigFile read, in order, each with
                 \* whether a parser was invoked on it and the error returned
    accs,        \* rkt/config: [tree -> [parser -> parserBase.configs]]
    propagators, \* rkt/config: configSetup.propagators: "none", "new" or "old"
    cfg,         \* rkt/config: the *Config returned (NoConfig when nil)
    schema,      \* networking/config: the directory set up, "networkV1" or "oldConf"
    nets,        \* networking/config: the ActiveNet objects allocated so far
    infos,       \* networking/config: the netinfo.NetInfo objects allocated so far
    netConfigs,  \* networking/config: parserBase.configs of the network parser
    netCfg,      \* networking/config: the *Config returned (NoConfig when nil)
    netResults,  \* history: the Networks every run of propagateConfig on the
                 \* accumulators of this resolution can return, pointers followed
    pluginConfigs, \* networking/config: parserBase.configs of pathsV1JSONParser
    propOpts,    \* networking/config: the propagation options of pathsV1JSONParser,
                 \* one per toplevel directory index
    pluginCfg,   \* networking/config: Config.PluginDirs returned (NoConfig when nil)
    directory,   \* pkg/config: Directory.directory, the cdb basename
    dirParsers,  \* pkg/config: Directory.parsersForKind
    dirSubdirs,  \* pkg/config: Directory.configSubdirs
    stat,        \* pkg/config: what os.Stat reports of the directories walked
    regLog,      \* history: the registration calls made, each with its error
    pending      \* pkg/config: the registered subdirectories readConfigDir has
                 \* yet to range over in the current toplevel directory

walkVars == <<fs, pc, idx, todo, curSub, err, log>>
cfgVars == <<accs, propagators, cfg>>
netVars == <<schema, nets, infos, netConfigs, netCfg, netResults>>
pluginVars == <<pluginConfigs, propOpts, pluginCfg>>
dirVars == <<directory, dirParsers, dirSubdirs, stat, regLog, pending>>
vars == <<walkVars, cfgVars, netVars, pluginVars, dirVars>>

----------------------------------------------------------------------------
(* Bounds *)

NRoots == 2
MaxFiles == 2
MaxNetFiles == 3
MaxRegs == 3
MaxNets == 3

Roots == 0 .. (NRoots - 1)

----------------------------------------------------------------------------
(* Generic helpers *)

Range(s) == { s[i] : i \in DOMAIN s }

EmptyMap == [x \in {} |-> x]

MapPut(m, k, v) == [x \in (DOMAIN m) \cup {k} |-> IF x = k THEN v ELSE m[x]]

Nil == "nil"

\* The nil *Config
NoConfig == [nil |-> TRUE]

\* filepath.IsAbs on a tokenised path
IsAbs(p) == Len(p) > 0 /\ p[1] = "/"

----------------------------------------------------------------------------
(* rkt/config: Config and the per-index accumulators *)

newConfig ==
    [ AuthPerHost |-> EmptyMap,
      DockerCredentialsPerRegistry |-> EmptyMap,
      Paths |-> [DataDir |-> <<>>, Stage1ImagesDir |-> <<>>],
      Stage1 |-> [Name |-> "", Version |-> "", Location |-> <<>>] ]

\* A variant that makes the whole list anew
getConfigAnew(configs, i) ==
    [k \in 1 .. (IF Len(configs) <= i THEN i + 1 ELSE Len(configs)) |-> newConfig]

\* parserBase.getConfig: pad the list with empty configs up to index i
getConfig(configs, i) ==
    IF Len(configs) <= i
    THEN configs \o [k \in 1 .. (i + 1 - Len(configs)) |-> newConfig]
    ELSE configs

\* A variant that takes a single accumulator for no visit
visitedOffByOne(configs) == Len(configs) > 1

\* parserBase.visited
visited(configs) == Len(configs) > 0

Ok(configs) == [err |-> "", configs |-> configs]
Fail(msg, configs) == [err |-> msg, configs |-> configs]

----------------------------------------------------------------------------
(* File contents.  A file is what json.Unmarshal makes of it: `json` tells  *)
(* whether the bytes decode at all ("bad"), decode as far as the            *)
(* rktKind/rktVersion header only ("hdr": a field of the body has the wrong *)
(* JSON type) or decode fully ("ok").  Absent fields are zero values.       *)

Blank ==
    [ json |-> "ok", rktKind |-> "", rktVersion |-> "",
      domains |-> <<>>, type |-> "", user |-> "", password |-> "", token |-> "",
      registries |-> <<>>,
      data |-> <<>>, stage1Images |-> <<>>,
      name |-> "", version |-> "", location |-> <<>> ]

AuthC(domains, type, user, password, token) ==
    [Blank EXCEPT !.rktKind = "auth", !.rktVersion = "v1", !.domains = domains,
                  !.type = type, !.user = user, !.password = password,
                  !.token = token]

DockerAuthC(registries, user, password) ==
    [Blank EXCEPT !.rktKind = "dockerAuth", !.rktVersion = "v1",
                  !.registries = registries, !.user = user,
                  !.password = password]

PathsC(data, stage1Images) ==
    [Blank EXCEPT !.rktKind = "paths", !.rktVersion = "v1", !.data = data,
                  !.stage1Images = stage1Images]

Stage1C(name, version, location) ==
    [Blank EXCEPT !.rktKind = "stage1", !.rktVersion = "v1", !.name = name,
                  !.version = version, !.location = location]

\* A file of the snapshot.  tree is the configuration directory it lies
\* under ("new": <root>/stage0-cfg, "old": <root> itself, the deprecated
\* empty basename).
\* fname is the file name as a sequence of tokens, the extension (with its
\* dot) being the last token; mode is the os.FileMode class of the entry.
File(root, tree, subdir, fname, mode, c) ==
    [root |-> root, tree |-> tree, subdir |-> subdir, fname |-> fname,
     mode |-> mode, c |-> c]

SameSlot(f, g) ==
    /\ f.root = g.root
    /\ f.tree = g.tree
    /\ f.subdir = g.subdir
    /\ f.fname = g.fname

----------------------------------------------------------------------------
(* common/config.go: the rktJSON configuration type *)

\* rktJSON.GetKindAndVersion
GetKindAndVersion(c) ==
    IF c.json = "bad" THEN [err |-> "invalid JSON", kind |-> "", version |-> ""]
    ELSE IF c.rktKind = "" THEN [err |-> "no rktKind specified", kind |-> "", version |-> ""]
    ELSE IF c.rktVersion = "" THEN [err |-> "no rktVersion specified", kind |-> "", version |-> ""]
    ELSE [err |-> "", kind |-> c.rktKind, version |-> c.rktVersion]

----------------------------------------------------------------------------
(* rkt/config/auth.go *)

\* basicAuthHeaderer / oAuthBearerTokenHeaderer, as the values they wrap
BasicHeaderer(user, password) == [typ |-> "basic", user |-> user, password |-> password]
OAuthHeaderer(token) == [typ |-> "oauth", token |-> token]

\* validateBasicV1
validateBasicV1(user, password) ==
    IF user = "" THEN "user not specified"
    ELSE IF password = "" THEN "password not specified"
    ELSE ""

\* authV1JsonParser.getBasicV1Headerer / getOAuthV1Headerer, by auth type
getHeaderer(c) ==
    IF c.type = "basic"
    THEN [err |-> validateBasicV1(c.user, c.password),
          headerer |-> BasicHeaderer(c.user, c.password)]
    ELSE IF c.type = "oauth"
    THEN [err |-> IF c.token = "" THEN "no oauth bearer token specified" ELSE "",
          headerer |-> OAuthHeaderer(c.token)]
    ELSE [err |-> "unknown auth type", headerer |-> Nil]

\* A variant that stores every key without looking for an earlier declaration
insertKeysUnchecked(m, keys, i, v) ==
    [err |-> "",
     map |-> [k \in (DOMAIN m) \cup Range(keys) |-> IF k \in Range(keys) THEN v ELSE m[k]]]

\* The loop of authV1JsonParser.Parse / dockerAuthV1JsonParser.Parse over the
\* declared keys: each key is stored unless the accumulator already has it;
\* keys stored before the offending one stay stored.
RECURSIVE insertKeys(_, _, _, _)
insertKeys(m, keys, i, v) ==
    IF i > Len(keys) THEN [err |-> "", map |-> m]
    ELSE IF keys[i] \in DOMAIN m THEN [err |-> "already specified", map |-> m]
    ELSE insertKeys(MapPut(m, keys[i], v), keys, i + 1, v)

\* A variant that takes the credentials as they are
authV1ParseAnyCredentials(configs, i, c) ==
    IF c.json # "ok" THEN Fail("invalid JSON", configs)
    ELSE IF Len(c.domains) = 0 THEN Fail("no domains specified", configs)
    ELSE IF c.type = "" THEN Fail("no auth type specified", configs)
    ELSE LET cs == getConfig(configs, i)
             r == insertKeys(cs[i + 1].AuthPerHost, c.domains, 1,
                             getHeaderer(c).headerer)
         IN  [err |-> r.err,
              configs |-> [cs EXCEPT ![i + 1].AuthPerHost = r.map]]

\* authV1JsonParser.Parse
authV1Parse(configs, i, c) ==
    IF c.json # "ok" THEN Fail("invalid JSON", configs)
    ELSE IF Len(c.domains) = 0 THEN Fail("no domains specified", configs)
    ELSE IF c.type = "" THEN Fail("no auth type specified", configs)
    ELSE LET h == getHeaderer(c) IN
         IF h.err # "" THEN Fail(h.err, configs)
         ELSE LET cs == getConfig(configs, i)
                  r == insertKeys(cs[i + 1].AuthPerHost, c.domains, 1, h.headerer)
              IN  [err |-> r.err,
                   configs |-> [cs EXCEPT ![i + 1].AuthPerHost = r.map]]

\* dockerAuthV1JsonParser.Parse
dockerAuthV1Parse(configs, i, c) ==
    IF c.json # "ok" THEN Fail("invalid JSON", configs)
    ELSE IF Len(c.registries) = 0 THEN Fail("no registries specified", configs)
    ELSE IF validateBasicV1(c.user, c.password) # ""
         THEN Fail(validateBasicV1(c.user, c.password), configs)
    ELSE LET cs == getConfig(configs, i)
             basic == [User |-> c.user, Password |-> c.password]
             r == insertKeys(cs[i + 1].DockerCredentialsPerRegistry,
                             c.registries, 1, basic)
         IN  [err |-> r.err,
              configs |-> [cs EXCEPT ![i + 1].DockerCredentialsPerRegistry = r.map]]

\* A variant in which the first declaration of a key wins
keepKeys(m, sub) ==
    [k \in (DOMAIN m) \cup (DOMAIN sub) |-> IF k \in DOMAIN m THEN m[k] ELSE sub[k]]

\* One step of the propagateConfig loops of auth and dockerAuth: every key of
\* the subconfig overwrites the key of the config.
overwriteKeys(m, sub) ==
    [k \in (DOMAIN m) \cup (DOMAIN sub) |-> IF k \in DOMAIN sub THEN sub[k] ELSE m[k]]

\* authV1JsonParser.propagateConfig
RECURSIVE authV1Propagate(_, _, _)
authV1Propagate(config, configs, i) ==
    IF i > Len(configs) THEN config
    ELSE authV1Propagate(
            [config EXCEPT !.AuthPerHost = overwriteKeys(@, configs[i].AuthPerHost)],
            configs, i + 1)

\* dockerAuthV1JsonParser.propagateConfig
RECURSIVE dockerAuthV1Propagate(_, _, _)
dockerAuthV1Propagate(config, configs, i) ==
    IF i > Len(configs) THEN config
    ELSE dockerAuthV1Propagate(
            [config EXCEPT !.DockerCredentialsPerRegistry =
                overwriteKeys(@, configs[i].DockerCredentialsPerRegistry)],
            configs, i + 1)

----------------------------------------------------------------------------
(* rkt/config: paths *)

\* A variant that sets a field again without testing whether the accumulator
\* already has it
pathsV1ParseRedeclare(configs, i, c) ==
    IF c.json # "ok" THEN Fail("invalid JSON", configs)
    ELSE
    LET cs == getConfig(configs, i) IN
        IF c.data # <<>> /\ ~IsAbs(c.data)
        THEN Fail("data directory must be an absolute path", cs)
        ELSE
        LET cs1 == IF c.data # <<>>
                   THEN [cs EXCEPT ![i + 1].Paths.DataDir = c.data]
                   ELSE cs
        IN  IF c.stage1Images # <<>> /\ ~IsAbs(c.stage1Images)
            THEN Fail("stage1 images directory must be an absolute path", cs1)
            ELSE IF c.stage1Images # <<>>
            THEN Ok([cs1 EXCEPT ![i + 1].Paths.Stage1ImagesDir = c.stage1Images])
            ELSE Ok(cs1)

\* A variant that tests only the data directory for being absolute
pathsV1ParseDataOnly(configs, i, c) ==
    IF c.json # "ok" THEN Fail("invalid JSON", configs)
    ELSE
    LET cs == getConfig(configs, i)
        config == cs[i + 1]
    IN  IF c.data # <<>> /\ config.Paths.DataDir # <<>>
        THEN Fail("data directory is already specified", cs)
        ELSE IF c.data # <<>> /\ ~IsAbs(c.data)
        THEN Fail("data directory must be an absolute path", cs)
        ELSE
        LET cs1 == IF c.data # <<>>
                   THEN [cs EXCEPT ![i + 1].Paths.DataDir = c.data]
                   ELSE cs
        IN  IF c.stage1Images # <<>> /\ config.Paths.Stage1ImagesDir # <<>>
            THEN Fail("stage1 images directory is already specified", cs1)
            ELSE IF c.stage1Images # <<>>
            THEN Ok([cs1 EXCEPT ![i + 1].Paths.Stage1ImagesDir = c.stage1Images])
            ELSE Ok(cs1)

\* pathsV1JsonParser.Parse
pathsV1Parse(configs, i, c) ==
    IF c.json # "ok" THEN Fail("invalid JSON", configs)
    ELSE
    LET cs == getConfig(configs, i)
        config == cs[i + 1]
    IN  IF c.data # <<>> /\ config.Paths.DataDir # <<>>
        THEN Fail("data directory is already specified", cs)
        ELSE IF c.data # <<>> /\ ~IsAbs(c.data)
        THEN Fail("data directory must be an absolute path", cs)
        ELSE
        LET cs1 == IF c.data # <<>>
                   THEN [cs EXCEPT ![i + 1].Paths.DataDir = c.data]
                   ELSE cs
        IN  IF c.stage1Images # <<>> /\ config.Paths.Stage1ImagesDir # <<>>
            THEN Fail("stage1 images directory is already specified", cs1)
            ELSE IF c.stage1Images # <<>> /\ ~IsAbs(c.stage1Images)
            THEN Fail("stage1 images directory must be an absolute path", cs1)
            ELSE IF c.stage1Images # <<>>
            THEN Ok([cs1 EXCEPT ![i + 1].Paths.Stage1ImagesDir = c.stage1Images])
            ELSE Ok(cs1)

\* A variant in which each accumulator overwrites both fields
RECURSIVE pathsV1PropagateOverwrite(_, _, _)
pathsV1PropagateOverwrite(config, configs, i) ==
    IF i > Len(configs) THEN config
    ELSE pathsV1PropagateOverwrite(
            [config EXCEPT !.Paths.DataDir = configs[i].Paths.DataDir,
                           !.Paths.Stage1ImagesDir = configs[i].Paths.Stage1ImagesDir],
            configs, i + 1)

\* pathsV1JsonParser.propagateConfig
RECURSIVE pathsV1Propagate(_, _, _)
pathsV1Propagate(config, configs, i) ==
    IF i > Len(configs) THEN config
    ELSE
    LET sub == configs[i].Paths
        c1 == IF sub.DataDir # <<>>
              THEN [config EXCEPT !.Paths.DataDir = sub.DataDir]
              ELSE config
        c2 == IF sub.Stage1ImagesDir # <<>>
              THEN [c1 EXCEPT !.Paths.Stage1ImagesDir = sub.Stage1ImagesDir]
              ELSE c1
    IN  pathsV1Propagate(c2, configs, i + 1)

----------------------------------------------------------------------------
(* rkt/config/stage1.go *)

allowedSchemes == {"file", "docker", "http", "https"}

\* url.Parse(location).Scheme on a tokenised location: the token before ":"
UrlScheme(l) == IF Len(l) >= 2 /\ l[2] = ":" THEN l[1] ELSE ""

\* A variant that looks at the name and the version only when there is no
\* location
validateStage1V1LocationFirst(c) ==
    IF c.location # <<>> /\ ~IsAbs(c.location) /\ UrlScheme(c.location) = ""
    THEN "default stage1 image location is either a relative path or a URL without scheme"
    ELSE IF c.location # <<>> /\ ~IsAbs(c.location)
            /\ UrlScheme(c.location) \notin allowedSchemes
    THEN "default stage1 image location URL has invalid scheme"
    ELSE IF c.location # <<>> THEN ""
    ELSE IF c.name = "" /\ c.version # ""
    THEN "default stage1 image version specified, but name is missing"
    ELSE IF c.name # "" /\ c.version = ""
    THEN "default stage1 image name specified, but version is missing"
    ELSE ""

\* stage1V1JsonParser.validateStage1V1
validateStage1V1(c) ==
    IF c.name = "" /\ c.version # ""
    THEN "default stage1 image version specified, but name is missing"
    ELSE IF c.name # "" /\ c.version = ""
    THEN "default stage1 image name specified, but version is missing"
    ELSE IF c.location # <<>> /\ ~IsAbs(c.location) /\ UrlScheme(c.location) = ""
    THEN "default stage1 image location is either a relative path or a URL without scheme"
    ELSE IF c.location # <<>> /\ ~IsAbs(c.location)
            /\ UrlScheme(c.location) \notin allowedSchemes
    THEN "default stage1 image location URL has invalid scheme"
    ELSE ""

\* stage1V1JsonParser.Parse
stage1V1Parse(configs, i, c) ==
    IF c.json # "ok" THEN Fail("invalid JSON", configs)
    ELSE IF validateStage1V1(c) # "" THEN Fail("invalid stage1 configuration", configs)
    ELSE
    LET cs == getConfig(configs, i)
        config == cs[i + 1]
    IN  IF c.name # "" /\ config.Stage1.Name # ""
        THEN Fail("name and version of a default stage1 image are already specified", cs)
        ELSE
        LET cs1 == IF c.name # ""
                   THEN [cs EXCEPT ![i + 1].Stage1.Name = c.name,
                                   ![i + 1].Stage1.Version = c.version]
                   ELSE cs
        IN  IF c.location # <<>> /\ config.Stage1.Location # <<>>
            THEN Fail("location of a default stage1 image is already specified", cs1)
            ELSE IF c.location # <<>>
            THEN Ok([cs1 EXCEPT ![i + 1].Stage1.Location = c.location])
            ELSE Ok(cs1)

\* A variant in which an accumulator that sets anything overwrites name,
\* version and location together
RECURSIVE stage1V1PropagateWhole(_, _, _)
stage1V1PropagateWhole(config, configs, i) ==
    IF i > Len(configs) THEN config
    ELSE stage1V1PropagateWhole(
            IF configs[i].Stage1.Name # "" \/ configs[i].Stage1.Location # <<>>
            THEN [config EXCEPT !.Stage1 = configs[i].Stage1]
            ELSE config,
            configs, i + 1)

\* stage1V1JsonParser.propagateConfig
RECURSIVE stage1V1Propagate(_, _, _)
stage1V1Propagate(config, configs, i) ==
    IF i > Len(configs) THEN config
    ELSE
    LET sub == configs[i].Stage1
        c1 == IF sub.Name # ""
              THEN [config EXCEPT !.Stage1.Name = sub.Name,
                                  !.Stage1.Version = sub.Version]
              ELSE config
        c2 == IF sub.Location # <<>>
              THEN [c1 EXCEPT !.Stage1.Location = sub.Location]
              ELSE c1
    IN  stage1V1Propagate(c2, configs, i + 1)

----------------------------------------------------------------------------
(* rkt/config/config.go: the setup shared by the old and the new directory *)

Trees == {"new", "old"}

\* configSetup.newDirectory / oldDirectory: the basename each one looks under
\* (common.Stage0CDB, common.DeprecatedCDB)
directoryOf(tree) == IF tree = "new" THEN "stage0-cfg" ELSE ""

\* getCommonSetup: the registered parsers, kind -> version -> parser
parsersForKind ==
    [ auth       |-> [v1 |-> "authV1"],
      dockerAuth |-> [v1 |-> "dockerAuthV1"],
      paths      |-> [v1 |-> "pathsV1"],
      stage1     |-> [v1 |-> "stage1V1"] ]

Parsers == {"authV1", "dockerAuthV1", "pathsV1", "stage1V1"}

\* getCommonSetup: the registered subdirectories and the kinds each accepts
configSubdirs ==
    [ s \in {"auth.d", "paths.d", "stage1.d"} |->
        IF s = "auth.d" THEN {"auth", "dockerAuth"}
        ELSE IF s = "paths.d" THEN {"paths"}
        ELSE {"stage1"} ]

\* Parser.Parse of the parser registered under the given name
Parse(parser, configs, i, c) ==
    CASE parser = "authV1"       -> authV1Parse(configs, i, c)
      [] parser = "dockerAuthV1" -> dockerAuthV1Parse(configs, i, c)
      [] parser = "pathsV1"      -> pathsV1Parse(configs, i, c)
      [] parser = "stage1V1"     -> stage1V1Parse(configs, i, c)

\* configSetup.propagateChanges over one directory's propagators, in order
propagateChanges(acc) ==
    stage1V1Propagate(
      pathsV1Propagate(
        dockerAuthV1Propagate(
          authV1Propagate(newConfig, acc["authV1"], 1),
          acc["dockerAuthV1"], 1),
        acc["pathsV1"], 1),
      acc["stage1V1"], 1)

----------------------------------------------------------------------------
(* pkg/config/directory.go: the walker *)

\* Token order used to compare file names: ASCII order of the first
\* character of each token ("-" < "." < digits < letters).
Alphabet ==
    << "-", ".conf", ".json", ".txt",
       "0", "1", "2", "3", "4", "5", "6", "7", "8", "9", "a", "b", "c" >>

Ord(t) == CHOOSE k \in DOMAIN Alphabet : Alphabet[k] = t

\* Go's < on strings, on token sequences
RECURSIVE StrLess(_, _)
StrLess(s, t) ==
    IF t = <<>> THEN FALSE
    ELSE IF s = <<>> THEN TRUE
    ELSE IF Ord(Head(s)) # Ord(Head(t)) THEN Ord(Head(s)) < Ord(Head(t))
    ELSE StrLess(Tail(s), Tail(t))

\* filepath.Ext of a tokenised name
Ext(fname) ==
    IF fname # <<>> /\ fname[Len(fname)] \in {".conf", ".json", ".txt"}
    THEN fname[Len(fname)]
    ELSE ""

\* Directory.validConfigFile with rktJSON.Extension
validConfigFile(f) == f.mode = "regular" /\ Ext(f.fname) = ".json"

\* Directory.getParser
getParser(kind, version) ==
    IF kind \notin DOMAIN parsersForKind
    THEN [err |-> "no parser available for configuration of kind", parser |-> Nil]
    ELSE IF version \notin DOMAIN parsersForKind[kind]
    THEN [err |-> "no parser available for configuration of kind and version",
          parser |-> Nil]
    ELSE [err |-> "", parser |-> parsersForKind[kind][version]]

\* subdirectory.parseConfigFile: acc is the accumulators of the walked
\* directory's parsers.  invoked tells whether a parser was called.
parseConfigFile(acc, f) ==
    LET kv == GetKindAndVersion(f.c) IN
    IF kv.err # ""
    THEN [err |-> "failed to get configuration kind and version",
          acc |-> acc, invoked |-> FALSE]
    ELSE IF kv.kind \notin configSubdirs[f.subdir]
    THEN [err |-> "the configuration directory expects other kinds",
          acc |-> acc, invoked |-> FALSE]
    ELSE LET gp == getParser(kv.kind, kv.version) IN
         IF gp.err # ""
         THEN [err |-> gp.err, acc |-> acc, invoked |-> FALSE]
         ELSE LET r == Parse(gp.parser, acc[gp.parser], f.root, f.c) IN
              [err |-> r.err,
               acc |-> [acc EXCEPT ![gp.parser] = r.configs],
               invoked |-> TRUE]

TreeOf(p) == IF p = "walkNew" THEN "new" ELSE "old"

\* The files filepath.Walk hands to readFile that pass validConfigFile, for
\* the toplevel directory with index i
candidates(tree, i) ==
    { f \in fs : /\ f.root = i
                 /\ f.tree = tree
                 /\ f.subdir \in DOMAIN configSubdirs
                 /\ validConfigFile(f) }

\* readConfigDir ranges over the subdirectory map in an unspecified order;
\* filepath.Walk then reads one subdirectory to its end, in lexical order.
nextFile(f) ==
    /\ f \in todo
    /\ \A g \in todo : g.subdir = f.subdir => ~StrLess(g.fname, f.fname)
    /\ (\E g \in todo : g.subdir = curSub) => f.subdir = curSub

\* Directory.WalkDirectories: the loop enters the next toplevel directory
\* (walkConfigDirectory, readConfigDir)
EnterConfigDirectory ==
    /\ pc \in {"walkNew", "walkOld"}
    /\ todo = {}
    /\ idx < NRoots
    /\ todo' = candidates(TreeOf(pc), idx)
    /\ idx' = idx + 1
    /\ curSub' = ""
    /\ UNCHANGED <<fs, pc, accs, propagators, cfg, err, log>>
    /\ UNCHANGED <<netVars, pluginVars, dirVars>>

\* A variant that skips a file in error and goes on with the walk
ReadFileBestEffort ==
    /\ pc \in {"walkNew", "walkOld"}
    /\ \E f \in todo :
        /\ nextFile(f)
        /\ LET r == parseConfigFile(accs[TreeOf(pc)], f) IN
            /\ accs' = [accs EXCEPT ![TreeOf(pc)] = r.acc]
            /\ log' = Append(log, [file |-> f, invoked |-> r.invoked, err |-> r.err])
            /\ todo' = todo \ {f}
            /\ curSub' = f.subdir
    /\ UNCHANGED <<fs, pc, idx, propagators, cfg, err>>
    /\ UNCHANGED <<netVars, pluginVars, dirVars>>

\* subdirectory.readFile on the next file; an error ends WalkDirectories,
\* configSetup.walkDirectories and GetConfigFrom
ReadFile ==
    /\ pc \in {"walkNew", "walkOld"}
    /\ \E f \in todo :
        /\ nextFile(f)
        /\ LET r == parseConfigFile(accs[TreeOf(pc)], f) IN
            /\ accs' = [accs EXCEPT ![TreeOf(pc)] = r.acc]
            /\ log' = Append(log, [file |-> f, invoked |-> r.invoked, err |-> r.err])
            /\ todo' = todo \ {f}
            /\ curSub' = f.subdir
            /\ IF r.err # ""
               THEN pc' = "failed" /\ err' = r.err
               ELSE UNCHANGED <<pc, err>>
    /\ UNCHANGED <<fs, idx, propagators, cfg>>
    /\ UNCHANGED <<netVars, pluginVars, dirVars>>

\* A variant that never falls back to the old directory
NewWalkDoneNoFallback ==
    /\ pc = "walkNew"
    /\ todo = {}
    /\ idx = NRoots
    /\ propagators' = "new"
    /\ cfg' = propagateChanges(accs["new"])
    /\ pc' = "done"
    /\ UNCHANGED <<fs, idx, todo, curSub, accs, err, log>>
    /\ UNCHANGED <<netVars, pluginVars, dirVars>>

\* configSetup.walkDirectories after newDirectory.WalkDirectories returned
\* nil, and, when the new propagators are used, the rest of GetConfigFrom
NewWalkDone ==
    /\ pc = "walkNew"
    /\ todo = {}
    /\ idx = NRoots
    /\ IF \E p \in Parsers : visited(accs["new"][p])
       THEN /\ propagators' = "new"
            /\ cfg' = propagateChanges(accs["new"])
            /\ pc' = "done"
            /\ UNCHANGED idx
       ELSE /\ propagators' = "old"
            /\ pc' = "walkOld"
            /\ idx' = 0
            /\ UNCHANGED cfg
    /\ UNCHANGED <<fs, todo, curSub, accs, err, log>>
    /\ UNCHANGED <<netVars, pluginVars, dirVars>>

\* oldDirectory.WalkDirectories returned nil: the rest of GetConfigFrom
OldWalkDone ==
    /\ pc = "walkOld"
    /\ todo = {}
    /\ idx = NRoots
    /\ cfg' = propagateChanges(accs["old"])
    /\ pc' = "done"
    /\ UNCHANGED <<fs, idx, todo, curSub, accs, propagators, err, log>>
    /\ UNCHANGED <<netVars, pluginVars, dirVars>>

----------------------------------------------------------------------------
(* The directory snapshots GetConfigFrom is run on *)

NameA == <<"a", ".json">>
NameB == <<"b", ".json">>
NameC == <<"c", ".txt">>

AbsA == <<"/", "a">>
AbsB == <<"/", "b">>
RelA == <<"a">>

AuthContents ==
    { AuthC(<<"h1">>, "basic", "u1", "p1", ""),
      AuthC(<<"h1", "h2">>, "oauth", "", "", "t1"),
      AuthC(<<"h2", "h2">>, "basic", "u2", "p2", ""),
      AuthC(<<"h1">>, "basic", "u1", "", ""),
      DockerAuthC(<<"r1">>, "u1", "p1"),
      DockerAuthC(<<"r1", "r2">>, "u2", "p2"),
      DockerAuthC(<<"r2", "r2">>, "u1", "p1") }

BrokenContents ==
    { [Blank EXCEPT !.json = "bad"],
      [AuthC(<<"h1">>, "basic", "u1", "p1", "") EXCEPT !.rktVersion = "v2"],
      PathsC(AbsA, <<>>) }

MoreAuthContents ==
    { AuthC(<<"h1">>, "oauth", "", "", "t2"),
      AuthC(<<"h2">>, "oauth", "", "", "t2"),
      DockerAuthC(<<"r1">>, "u2", "p2") }

PathsContents ==
    { PathsC(AbsA, <<>>), PathsC(<<>>, AbsB), PathsC(RelA, <<>>), PathsC(AbsB, AbsA) }

Stage1Contents ==
    { Stage1C("n1", "1.0", <<>>),
      Stage1C("", "", <<"https", ":", "x">>),
      Stage1C("n1", "", <<>>),
      Stage1C("", "1.0", <<>>),
      Stage1C("n1", "", AbsA),
      Stage1C("", "1.0", AbsA),
      Stage1C("n2", "2.0", AbsB),
      Stage1C("", "", AbsA),
      Stage1C("", "", <<>>),
      Stage1C("", "", RelA) }

NewFiles(r) ==
    { File(r, "new", "auth.d", NameA, "regular", c) :
        c \in AuthContents \cup BrokenContents }
    \cup { File(r, "new", "auth.d", NameB, "regular", c) : c \in MoreAuthContents }
    \cup { File(r, "new", "paths.d", NameA, "regular", c) : c \in PathsContents }
    \cup { File(r, "new", "stage1.d", NameA, "regular", c) : c \in Stage1Contents }
    \cup { File(r, "new", "auth.d", NameC, "regular",
                AuthC(<<"h1">>, "basic", "u1", "p1", "")) }

OldFiles(r) ==
    { File(r, "old", "auth.d", NameA, "regular", c) :
        c \in { AuthC(<<"h1">>, "basic", "u1", "p1", ""),
                AuthC(<<"h1", "h2">>, "oauth", "", "", "t1"),
                DockerAuthC(<<"r1">>, "u1", "p1"),
                [Blank EXCEPT !.json = "bad"] } }
    \cup { File(r, "old", "auth.d", NameB, "regular", c) :
        c \in { AuthC(<<"h2">>, "oauth", "", "", "t2") } }
    \cup { File(r, "old", "paths.d", NameA, "regular", c) :
        c \in { PathsC(AbsA, <<>>), PathsC(<<>>, AbsB) } }
    \cup { File(r, "old", "stage1.d", NameA, "regular", c) :
        c \in { Stage1C("n1", "1.0", <<>>) } }

Universe == UNION { NewFiles(r) \cup OldFiles(r) : r \in Roots }

RECURSIVE SubsetsUpTo(_, _)
SubsetsUpTo(U, k) ==
    IF k = 0 THEN {{}}
    ELSE LET P == SubsetsUpTo(U, k - 1) IN P \cup { s \cup {x} : s \in P, x \in U }

\* A directory holds one entry per name
Snapshot(S) == \A f, g \in S : SameSlot(f, g) => f = g

Init ==
    /\ fs \in { S \in SubsetsUpTo(Universe, MaxFiles) : Snapshot(S) }
    /\ pc = "walkNew"
    /\ idx = 0
    /\ todo = {}
    /\ curSub = ""
    /\ accs = [t \in Trees |-> [p \in Parsers |-> <<>>]]
    /\ propagators = "none"
    /\ cfg = NoConfig
    /\ err = ""
    /\ log = <<>>
    /\ schema = "none"
    /\ nets = <<>>
    /\ infos = <<>>
    /\ netConfigs = <<>>
    /\ netCfg = NoConfig
    /\ netResults = {}
    /\ pluginConfigs = <<>>
    /\ propOpts = <<>>
    /\ pluginCfg = NoConfig
    /\ directory = ""
    /\ dirParsers = EmptyMap
    /\ dirSubdirs = EmptyMap
    /\ stat = EmptyMap
    /\ regLog = <<>>
    /\ pending = {}

Next ==
    \/ EnterConfigDirectory
    \/ ReadFile
    \/ NewWalkDone
    \/ OldWalkDone

Spec == Init /\ [][Next]_vars

----------------------------------------------------------------------------
(* What a snapshot declares, read off the files themselves *)

\* The files of a tree that the walker is to parse
Declaring(tree) ==
    { f \in fs : /\ f.tree = tree
                 /\ f.subdir \in {"auth.d", "paths.d", "stage1.d"}
                 /\ f.mode = "regular"
                 /\ f.fname[Len(f.fname)] = ".json" }

OfKind(tree, kind) == { f \in Declaring(tree) : f.c.rktKind = kind }

DeclaredKeys(f) ==
    IF f.c.rktKind = "auth" THEN Range(f.c.domains)
    ELSE IF f.c.rktKind = "dockerAuth" THEN Range(f.c.registries)
    ELSE {}

DeclaredValue(f) ==
    IF f.c.rktKind = "auth"
    THEN IF f.c.type = "basic"
         THEN [typ |-> "basic", user |-> f.c.user, password |-> f.c.password]
         ELSE [typ |-> "oauth", token |-> f.c.token]
    ELSE [User |-> f.c.user, Password |-> f.c.password]

\* The file of the highest-indexed root among those declaring key k
IsLastDeclaring(f, F, k) ==
    /\ f \in F
    /\ k \in DeclaredKeys(f)
    /\ \A g \in F : k \in DeclaredKeys(g) => g.root <= f.root

LastWinsMap(F) ==
    [ k \in UNION { DeclaredKeys(f) : f \in F } |->
        DeclaredValue(CHOOSE f \in F : IsLastDeclaring(f, F, k)) ]

\* The last non-empty value of a field over the roots, or the empty default
LastNonEmpty(F, field, empty) ==
    LET G == { f \in F : f.c[field] # empty } IN
    IF G = {} THEN empty
    ELSE (CHOOSE f \in G : \A g \in G : g.root <= f.root).c[field]

\* The Config a tree declares by itself
DeclaredConfig(tree) ==
    [ AuthPerHost |-> LastWinsMap(OfKind(tree, "auth")),
      DockerCredentialsPerRegistry |-> LastWinsMap(OfKind(tree, "dockerAuth")),
      Paths |-> [ DataDir |-> LastNonEmpty(OfKind(tree, "paths"), "data", <<>>),
                  Stage1ImagesDir |->
                      LastNonEmpty(OfKind(tree, "paths"), "stage1Images", <<>>) ],
      Stage1 |-> [ Name |-> LastNonEmpty(OfKind(tree, "stage1"), "name", ""),
                   Version |-> LastNonEmpty(OfKind(tree, "stage1"), "version", ""),
                   Location |-> LastNonEmpty(OfKind(tree, "stage1"), "location", <<>>) ] ]

NewTouched == \E i \in DOMAIN log : log[i].file.tree = "new"

----------------------------------------------------------------------------
(* Claims *)

\* C1: whenever GetConfigFrom succeeds, the keys of the effective auth and
\* docker-auth maps are exactly the hosts / registries declared in the roots
\* of the resolved tree, and each key holds the value declared by the
\* highest-indexed root that declares it.
C1_AuthLastRootWins ==
    pc = "done" =>
        \A kind \in {"auth", "dockerAuth"} :
            LET F == OfKind(propagators, kind)
                m == IF kind = "auth" THEN cfg.AuthPerHost
                     ELSE cfg.DockerCredentialsPerRegistry
            IN  /\ DOMAIN m = UNION { DeclaredKeys(f) : f \in F }
                /\ \A k \in DOMAIN m :
                     \E f \in F : IsLastDeclaring(f, F, k) /\ m[k] = DeclaredValue(f)

\* C1 witness: a successful resolution in which two roots declare the same
\* host with different credentials and the later root also adds a host.
C1_Witness ==
    /\ pc = "done"
    /\ \E f, g \in OfKind(propagators, "auth") :
        /\ f.root < g.root
        /\ DeclaredKeys(f) \cap DeclaredKeys(g) # {}
        /\ DeclaredKeys(g) \ DeclaredKeys(f) # {}
        /\ DeclaredValue(f) # DeclaredValue(g)
        /\ \A k \in DeclaredKeys(g) : cfg.AuthPerHost[k] = DeclaredValue(g)

\* Two parser invocations of the same kind under one root index naming a
\* common key, or one invocation whose list names a key twice
RepeatsKey(keys) == \E a, b \in DOMAIN keys : a # b /\ keys[a] = keys[b]

KeyList(f) ==
    IF f.c.rktKind = "auth" THEN f.c.domains
    ELSE IF f.c.rktKind = "dockerAuth" THEN f.c.registries
    ELSE <<>>

Redeclares(i, j) ==
    /\ i < j
    /\ log[i].invoked /\ log[j].invoked
    /\ log[i].file.c.rktKind = log[j].file.c.rktKind
    /\ log[i].file.tree = log[j].file.tree
    /\ log[i].file.root = log[j].file.root
    /\ DeclaredKeys(log[i].file) \cap DeclaredKeys(log[j].file) # {}

\* C2: a host or registry declared a second time under the same root index
\* (in a second file, or twice in one list) makes the parser fail at that
\* declaration and the resolution fail; an already-specified error never
\* comes from declarations of different roots.
C2_DuplicateKeyInRootFails ==
    /\ \A i, j \in DOMAIN log :
         Redeclares(i, j) => j = Len(log) /\ log[j].err # "" /\ pc = "failed"
    /\ \A i \in DOMAIN log :
         (log[i].invoked /\ RepeatsKey(KeyList(log[i].file)))
            => i = Len(log) /\ log[i].err # "" /\ pc = "failed"
    /\ \A j \in DOMAIN log :
         log[j].err = "already specified"
            => \/ RepeatsKey(KeyList(log[j].file))
               \/ \E i \in DOMAIN log : Redeclares(i, j)

\* C2 witness: the resolution failed with an already-specified error at the
\* second of two files of one root that name the same host.
C2_Witness ==
    /\ pc = "failed"
    /\ err = "already specified"
    /\ \E i \in DOMAIN log : Redeclares(i, Len(log))

\* C3: once the walk of the new directory has read a file, no file of the
\* old directory is ever read, and a successful resolution returns what the
\* new tree alone declares (old-tree files, of whatever kind, have no effect).
C3_NewTreeAuthoritative ==
    NewTouched =>
        /\ \A i \in DOMAIN log : log[i].file.tree = "new"
        /\ pc # "walkOld"
        /\ \A p \in Parsers : accs["old"][p] = <<>>
        /\ pc = "done" => propagators = "new" /\ cfg = DeclaredConfig("new")

\* C3 witness: a stage1 file in the new tree and a paths file in the old
\* tree; the resolution succeeds with empty paths.
C3_Witness ==
    /\ pc = "done"
    /\ OfKind("new", "stage1") # {}
    /\ OfKind("old", "paths") # {}
    /\ cfg.Stage1.Name # ""
    /\ cfg.Paths = [DataDir |-> <<>>, Stage1ImagesDir |-> <<>>]

\* C4: when the walk of the new directory reads no file, the old directory
\* is walked over the same roots, no parser of the new directory is invoked,
\* and a successful resolution returns what the old tree declares.
C4_LegacyFallback ==
    /\ (pc = "walkOld" \/ propagators = "old") =>
          /\ ~NewTouched
          /\ \A p \in Parsers : accs["new"][p] = <<>>
    /\ (pc = "done" /\ ~NewTouched) =>
          /\ propagators = "old"
          /\ \A f \in Declaring("old") : \E i \in DOMAIN log : log[i].file = f
          /\ cfg = DeclaredConfig("old")

\* C4 witness: a successful resolution from old-tree files only, although
\* the new tree holds a file the walker does not take for a candidate.
C4_Witness ==
    /\ pc = "done"
    /\ propagators = "old"
    /\ Declaring("old") # {}
    /\ cfg # newConfig
    /\ \E f \in fs : f.tree = "new"

\* A file that is in error whatever was read before it
StaticallyBad(f) ==
    \/ f.c.json # "ok"
    \/ f.c.rktKind \notin configSubdirs[f.subdir]
    \/ f.c.rktVersion # "v1"
    \/ f.c.rktKind = "auth" /\ f.c.domains = <<>>
    \/ f.c.rktKind = "auth" /\ f.c.type = "basic"
          /\ (f.c.user = "" \/ f.c.password = "")
    \/ f.c.rktKind = "auth" /\ f.c.type = "oauth" /\ f.c.token = ""
    \/ f.c.rktKind = "auth" /\ f.c.type \notin {"basic", "oauth"}
    \/ f.c.rktKind = "dockerAuth"
          /\ (f.c.registries = <<>> \/ f.c.user = "" \/ f.c.password = "")
    \/ f.c.rktKind = "paths" /\ f.c.data # <<>> /\ f.c.data[1] # "/"
    \/ f.c.rktKind = "stage1" /\ (f.c.name = "") # (f.c.version = "")

\* C5: a file in error ends the walk at once: it is the last file read, the
\* resolution fails with that error and returns no Config, and after an
\* error in the new directory the old directory is not walked.
C5_FailFast ==
    /\ \A i \in DOMAIN log :
         /\ StaticallyBad(log[i].file) => log[i].err # ""
         /\ log[i].err # "" =>
               /\ i = Len(log)
               /\ pc = "failed"
               /\ err = log[i].err
               /\ (log[i].file.tree = "new" =>
                      \A j \in DOMAIN log : log[j].file.tree = "new")
    /\ pc = "failed" => cfg = NoConfig /\ log # <<>> /\ log[Len(log)].err # ""
    /\ cfg # NoConfig => pc = "done" /\ err = ""

\* C5 witness: the walk failed on a file of the new tree while another
\* candidate file of the snapshot was yet to be read, and never is.
C5_Witness ==
    /\ pc = "failed"
    /\ log[Len(log)].file.tree = "new"
    /\ \E f \in Declaring("new") \cup Declaring("old") :
         \A i \in DOMAIN log : log[i].file # f


----------------------------------------------------------------------------
(* networking/config: the network configuration *)

\* The decoded contents of a network file.  cniConf is the "cniConf" object
\* of a current-schema file; name and type are also what a legacy .conf file
\* unmarshals to as a nettypes.NetConf.
NoCNI == [nil |-> TRUE, type |-> "", hasName |-> FALSE, name |-> ""]
CNI(type) == [nil |-> FALSE, type |-> type, hasName |-> FALSE, name |-> ""]
CNINamed(type, name) == [nil |-> FALSE, type |-> type, hasName |-> TRUE, name |-> name]

NetBlank ==
    [json |-> "ok", rktKind |-> "network", rktVersion |-> "v1",
     hasPriority |-> TRUE, priority |-> 0, name |-> "", type |-> "",
     cniConf |-> NoCNI]

NetworkC(name, priority, cniConf) ==
    [NetBlank EXCEPT !.name = name, !.priority = priority, !.cniConf = cniConf]

OldConfC(name, type) ==
    [NetBlank EXCEPT !.rktKind = "", !.rktVersion = "", !.hasPriority = FALSE,
                     !.name = name, !.type = type]

\* nettypes.NetConf, nil when there is none
NoConf == [nil |-> TRUE, Name |-> "", Type |-> ""]
NetConf(name, type) == [nil |-> FALSE, Name |-> name, Type |-> type]

\* A path as the pair filepath.Dir, filepath.Base split it into
Path(dir, base) == [dir |-> dir, base |-> base]
Base(p) == p.base
Dir(p) == p.dir

\* PathIndex.FilePath: filepath.Join(pi.Path, pi.Subdirectory, pi.Filename)
FilePath(f) == Path(<<f.root, f.subdir>>, f.fname)

\* strings.TrimSuffix(name, filepath.Ext(name))
TrimExt(fname) == IF Ext(fname) = "" THEN fname ELSE SubSeq(fname, 1, Len(fname) - 1)

Digits == << "0", "1", "2", "3", "4", "5", "6", "7", "8", "9" >>

\* fmt.Sprintf("%d", n) for 0 <= n
RECURSIVE Decimal(_)
Decimal(n) ==
    IF n < 10 THEN << Digits[n + 1] >>
    ELSE Append(Decimal(n \div 10), Digits[(n % 10) + 1])

\* fmt.Sprintf("%02d", n) for 0 <= n
Decimal02(n) == IF n < 10 THEN << "0" >> \o Decimal(n) ELSE Decimal(n)

\* Go's < on the paths of the model: directories first (all compared paths
\* of one accumulator share theirs), then the names
PathLess(p, q) ==
    IF p.dir = q.dir THEN StrLess(p.base, q.base)
    ELSE p.dir # <<>> /\ q.dir # <<>> /\ p.dir[1] < q.dir[1]

\* The pointers of the package: an ActiveNet is an index into nets, its
\* Runtime an index into infos.  A heap is the pair of both.
Heap(N, I) == [nets |-> N, infos |-> I]

ActiveNet(confBytes, conf, runtime) ==
    [ConfBytes |-> confBytes, Conf |-> conf, Runtime |-> runtime]

NetInfo(netName, confPath) == [NetName |-> netName, ConfPath |-> confPath]

\* &nettypes.ActiveNet{..., Runtime: &netinfo.NetInfo{...}}: both allocated
alloc(h, confBytes, conf, netName, confPath) ==
    Heap(Append(h.nets, ActiveNet(confBytes, conf, Len(h.infos) + 1)),
         Append(h.infos, NetInfo(netName, confPath)))

\* networking/config newConfig
newNetConfig == [ByName |-> EmptyMap, Ordered |-> <<>>]

getNetConfig(configs, i) ==
    [k \in 1 .. (IF Len(configs) > i THEN Len(configs) ELSE i + 1) |->
        IF k <= Len(configs) THEN configs[k] ELSE newNetConfig]

NetOk(h, configs) == [err |-> "", heap |-> h, configs |-> configs]
NetFail(msg, h, configs) == [err |-> msg, heap |-> h, configs |-> configs]

\* A variant whose upper limit is exclusive
validateNetworkV1Below99(c) ==
    IF ~c.hasPriority THEN "missing a priority field"
    ELSE IF c.priority < 0 \/ c.priority >= 99 THEN "a priority field is invalid"
    ELSE IF c.name = "" THEN "missing a name field or it is empty"
    ELSE IF c.cniConf.hasName /\ c.cniConf.name # c.name
    THEN "conflicting network names"
    ELSE ""

\* networkV1JSONParser.validateNetworkV1
validateNetworkV1(c) ==
    IF ~c.hasPriority THEN "missing a priority field"
    ELSE IF c.priority < 0 \/ c.priority > 99 THEN "a priority field is invalid"
    ELSE IF c.name = "" THEN "missing a name field or it is empty"
    ELSE IF c.cniConf.hasName /\ c.cniConf.name # c.name
    THEN "conflicting network names"
    ELSE ""

\* networkV1JSONParser.getFixedConf: the provider configuration with the
\* network name put into it, decoded, and its marshalled bytes
getFixedConf(c) ==
    IF c.cniConf.nil
    THEN [conf |-> NoConf, raw |-> <<>>]
    ELSE [conf |-> NetConf(c.name, c.cniConf.type),
          raw |-> << "name", c.name, "type", c.cniConf.type >>]

\* networkV1JSONParser.getActiveNet
getActiveNet(h, c, fp) ==
    LET fixed == getFixedConf(c)
        baseNoExt == TrimExt(Base(fp))
        oldStylePath == Decimal02(c.priority) \o << "-" >> \o baseNoExt \o << ".conf" >>
    IN alloc(h, fixed.raw, fixed.conf, c.name, Path(<<>>, oldStylePath))

\* A variant that lets a second declaration of a name replace the first
networkV1ParseRedefine(h, configs, f) ==
    IF f.c.json = "bad" THEN NetFail("error loading", h, configs)
    ELSE IF validateNetworkV1(f.c) # ""
    THEN NetFail(validateNetworkV1(f.c), h, configs)
    ELSE LET cs == getNetConfig(configs, f.root)
             cfg_ == cs[f.root + 1]
             name == f.c.name
             h2 == getActiveNet(h, f.c, FilePath(f))
             an == Len(h2.nets)
         IN NetOk(h2, [cs EXCEPT ![f.root + 1] =
                         [ByName |-> MapPut(cfg_.ByName, name, an),
                          Ordered |-> Append(cfg_.Ordered, an)]])

\* networkV1JSONParser.Parse
networkV1Parse(h, configs, f) ==
    IF f.c.json = "bad" THEN NetFail("error loading", h, configs)
    ELSE IF validateNetworkV1(f.c) # ""
    THEN NetFail(validateNetworkV1(f.c), h, configs)
    ELSE LET cs == getNetConfig(configs, f.root)
             cfg_ == cs[f.root + 1]
             name == f.c.name
         IN IF name \in DOMAIN cfg_.ByName
            THEN NetFail("network was already defined", h, cs)
            ELSE LET h2 == getActiveNet(h, f.c, FilePath(f))
                     an == Len(h2.nets)
                 IN NetOk(h2, [cs EXCEPT ![f.root + 1] =
                                 [ByName |-> MapPut(cfg_.ByName, name, an),
                                  Ordered |-> Append(cfg_.Ordered, an)]])

\* oldConfJSONParser.getActiveNet
oldGetActiveNet(h, c, fp) ==
    alloc(h, << "raw", c.name, c.type >>, NetConf(c.name, c.type), c.name, fp)

\* A variant that keeps the entry parsed first, whatever the paths
oldConfParseKeepFirst(h, configs, f) ==
    IF f.c.json = "bad" THEN NetFail("error loading", h, configs)
    ELSE LET cs == getNetConfig(configs, f.root)
             cfg_ == cs[f.root + 1]
             name == f.c.name
         IN IF name \in DOMAIN cfg_.ByName
            THEN NetOk(h, cs)
            ELSE LET h2 == oldGetActiveNet(h, f.c, FilePath(f))
                     an == Len(h2.nets)
                 IN NetOk(h2, [cs EXCEPT ![f.root + 1] =
                                 [ByName |-> MapPut(cfg_.ByName, name, an),
                                  Ordered |-> Append(cfg_.Ordered, an)]])

\* A variant that lets the entry parsed last replace the one before
oldConfParseLastWins(h, configs, f) ==
    IF f.c.json = "bad" THEN NetFail("error loading", h, configs)
    ELSE LET cs == getNetConfig(configs, f.root)
             cfg_ == cs[f.root + 1]
             name == f.c.name
             h2 == oldGetActiveNet(h, f.c, FilePath(f))
         IN IF name \in DOMAIN cfg_.ByName
            THEN NetOk(Heap([h2.nets EXCEPT ![cfg_.ByName[name]] = h2.nets[Len(h2.nets)]],
                            h2.infos), cs)
            ELSE NetOk(h2, [cs EXCEPT ![f.root + 1] =
                              [ByName |-> MapPut(cfg_.ByName, name, Len(h2.nets)),
                               Ordered |-> Append(cfg_.Ordered, Len(h2.nets))]])

\* oldConfJSONParser.Parse
oldConfParse(h, configs, f) ==
    IF f.c.json = "bad" THEN NetFail("error loading", h, configs)
    ELSE LET cs == getNetConfig(configs, f.root)
             cfg_ == cs[f.root + 1]
             name == f.c.name
             fp == FilePath(f)
         IN IF name \in DOMAIN cfg_.ByName
            THEN LET an == cfg_.ByName[name] IN
                 IF PathLess(h.infos[h.nets[an].Runtime].ConfPath, fp)
                 THEN NetOk(h, cs)
                 ELSE LET h2 == oldGetActiveNet(h, f.c, fp) IN
                      NetOk(Heap([h2.nets EXCEPT ![an] = h2.nets[Len(h2.nets)]],
                                 h2.infos), cs)
            ELSE LET h2 == oldGetActiveNet(h, f.c, fp)
                     an == Len(h2.nets)
                 IN NetOk(h2, [cs EXCEPT ![f.root + 1] =
                                 [ByName |-> MapPut(cfg_.ByName, name, an),
                                  Ordered |-> Append(cfg_.Ordered, an)]])


\* The state of a merge: the heap, and the Networks of the Config merged into
Merged(h, byName, ordered) == [heap |-> h, ByName |-> byName, Ordered |-> ordered]

\* A variant whose collision with provider configuration keeps the runtime
\* information and the raw bytes of the earlier directory
mergeEntryConfOnly(m, name, sub) ==
    IF name \in DOMAIN m.ByName
    THEN LET network == m.ByName[name] IN
         IF ~m.heap.nets[sub].Conf.nil
         THEN [m EXCEPT !.heap.nets[network].Conf = m.heap.nets[sub].Conf]
         ELSE [m EXCEPT !.heap.nets[network].Runtime = m.heap.nets[sub].Runtime]
    ELSE Merged(m.heap, MapPut(m.ByName, name, sub), Append(m.Ordered, sub))

\* A variant that overwrites the whole entry whatever the later one carries
mergeEntryAlwaysCopy(m, name, sub) ==
    IF name \in DOMAIN m.ByName
    THEN [m EXCEPT !.heap.nets[m.ByName[name]] = m.heap.nets[sub]]
    ELSE Merged(m.heap, MapPut(m.ByName, name, sub), Append(m.Ordered, sub))

\* networkV1JSONParser.propagateConfig, the body of the loop over
\* subnetworks.ByName: sub is the pointer stored under name
mergeEntry(m, name, sub) ==
    IF name \in DOMAIN m.ByName
    THEN LET network == m.ByName[name] IN
         IF ~m.heap.nets[sub].Conf.nil
         THEN [m EXCEPT !.heap.nets[network] = m.heap.nets[sub]]
         ELSE [m EXCEPT !.heap.nets[network].Runtime = m.heap.nets[sub].Runtime]
    ELSE Merged(m.heap, MapPut(m.ByName, name, sub), Append(m.Ordered, sub))

\* A variant in which the later entry replaces the earlier one only when
\* its file name is the greater one
oldMergeEntryByName(m, name, an) ==
    IF name \in DOMAIN m.ByName
    THEN IF StrLess(Base(m.heap.infos[m.heap.nets[m.ByName[name]].Runtime].ConfPath),
                    Base(m.heap.infos[m.heap.nets[an].Runtime].ConfPath))
         THEN [m EXCEPT !.heap.nets[m.ByName[name]] = m.heap.nets[an]]
         ELSE m
    ELSE Merged(m.heap, MapPut(m.ByName, name, an), Append(m.Ordered, an))

\* oldConfJSONParser.propagateConfig, the body of the loop over
\* subconfig.Networks.ByName
oldMergeEntry(m, name, an) ==
    IF name \in DOMAIN m.ByName
    THEN [m EXCEPT !.heap.nets[m.ByName[name]] = m.heap.nets[an]]
    ELSE Merged(m.heap, MapPut(m.ByName, name, an), Append(m.Ordered, an))

\* range over a ByName map: Go leaves the order open, order is the one taken
\* (a sequence holding every name once), k the position reached in it
RECURSIVE rangeByName(_, _, _, _, _)
rangeByName(m, byName, order, k, old) ==
    IF k > Len(order) THEN m
    ELSE IF order[k] \notin DOMAIN byName
    THEN rangeByName(m, byName, order, k + 1, old)
    ELSE rangeByName(IF old THEN oldMergeEntry(m, order[k], byName[order[k]])
                     ELSE mergeEntry(m, order[k], byName[order[k]]),
                     byName, order, k + 1, old)

\* range over p.configs, from the i-th on
RECURSIVE rangeConfigs(_, _, _, _, _)
rangeConfigs(m, configs, i, order, old) ==
    IF i > Len(configs) THEN m
    ELSE rangeConfigs(rangeByName(m, configs[i].ByName, order, 1, old),
                      configs, i + 1, order, old)

\* The indices of the entries without provider configuration, the last first
RECURSIVE emptyIndices(_, _, _)
emptyIndices(h, ordered, i) ==
    IF i > Len(ordered) THEN <<>>
    ELSE IF h.nets[ordered[i]].Conf.nil
    THEN Append(emptyIndices(h, ordered, i + 1), i)
    ELSE emptyIndices(h, ordered, i + 1)

\* A variant that leaves the entries without provider configuration in
keepEmpty(m, indices, k) == m

\* A variant that drops the entry from ordered and leaves it in ByName
RECURSIVE removeFromOrderedOnly(_, _, _)
removeFromOrderedOnly(m, indices, k) ==
    IF k > Len(indices) THEN m
    ELSE LET i == indices[k]
             n == Len(m.Ordered)
         IN removeFromOrderedOnly(
                Merged(m.heap, m.ByName,
                       SubSeq([m.Ordered EXCEPT ![i] = m.Ordered[n]], 1, n - 1)),
                indices, k + 1)

\* networkV1JSONParser.propagateConfig, the loop over indices: the entry is
\* deleted from ByName under the name of its runtime information, and the
\* last entry of ordered takes its place
RECURSIVE removeEmpty(_, _, _)
removeEmpty(m, indices, k) ==
    IF k > Len(indices) THEN m
    ELSE LET i == indices[k]
             n == Len(m.Ordered)
             name == m.heap.infos[m.heap.nets[m.Ordered[i]].Runtime].NetName
         IN removeEmpty(
                Merged(m.heap,
                       [x \in (DOMAIN m.ByName) \ {name} |-> m.ByName[x]],
                       SubSeq([m.Ordered EXCEPT ![i] = m.Ordered[n]], 1, n - 1)),
                indices, k + 1)

\* activeNetsSortableByPath.Less on two pointers
Less(h, a, b) ==
    StrLess(Base(h.infos[h.nets[a].Runtime].ConfPath),
            Base(h.infos[h.nets[b].Runtime].ConfPath))

\* The orders a sequence of distinct pointers can be put in
Orderings(ordered) ==
    { s \in [DOMAIN ordered -> Range(ordered)] : Range(s) = Range(ordered) }

\* A variant that does not sort
unsorted(h, ordered) == Orderings(ordered)

\* sort.Sort(activeNetsSortableByPath(ordered)): the sort is not stable, any
\* order with no later entry less than an earlier one can come out
sortByPath(h, ordered) ==
    { s \in Orderings(ordered) :
        \A i, j \in DOMAIN s : i < j => ~Less(h, s[j], s[i]) }

\* A variant that leaves the paths as they are
keepConfPaths(h, ans, idx_) == h

\* fixupConfPaths, from the entry with index idx_ (counted from 0) on
RECURSIVE fixupConfPaths(_, _, _)
fixupConfPaths(h, ans, idx_) ==
    IF idx_ >= Len(ans) THEN h
    ELSE LET rt == h.nets[ans[idx_ + 1]].Runtime
             confPath == h.infos[rt].ConfPath
             base == Base(confPath)
             ext == Ext(base)
             newBase == TrimExt(base) \o << "-" >> \o Decimal(idx_)
                        \o (IF ext = "" THEN <<>> ELSE << ext >>)
         IN fixupConfPaths(
                Heap(h.nets, [h.infos EXCEPT ![rt].ConfPath = Path(Dir(confPath), newBase)]),
                ans, idx_ + 1)


\* A sequence holding every element of the finite set S once
SeqOf(S) == CHOOSE s \in [1 .. Cardinality(S) -> S] : Range(s) = S

\* The names some accumulator knows
NamesIn(configs) == UNION { DOMAIN configs[i].ByName : i \in DOMAIN configs }

\* networkV1JSONParser.propagateConfig on a new Config: what it can leave
\* behind, over the orders the maps are ranged in and the orders the sort
\* can produce
networkV1Propagate(h, configs) ==
    UNION {
        LET m1 == rangeConfigs(Merged(h, EmptyMap, <<>>), configs, 1, order, FALSE)
            m2 == removeEmpty(m1, emptyIndices(m1.heap, m1.Ordered, 1), 1)
        IN { Merged(m2.heap, m2.ByName, s) : s \in sortByPath(m2.heap, m2.Ordered) }
        : order \in Orderings(SeqOf(NamesIn(configs))) }

\* oldConfJSONParser.propagateConfig on a new Config
oldConfPropagate(h, configs) ==
    UNION {
        LET m1 == rangeConfigs(Merged(h, EmptyMap, <<>>), configs, 1, order, TRUE)
        IN { Merged(fixupConfPaths(m1.heap, s, 0), m1.ByName, s) :
                s \in sortByPath(m1.heap, m1.Ordered) }
        : order \in Orderings(SeqOf(NamesIn(configs))) }

\* The Networks of a merge as a caller reads them: every pointer followed
DerefIn(h, an) ==
    [ConfBytes |-> h.nets[an].ConfBytes, Conf |-> h.nets[an].Conf,
     Runtime |-> h.infos[h.nets[an].Runtime]]

NetworksOf(m) ==
    [ByName |-> [n \in DOMAIN m.ByName |-> DerefIn(m.heap, m.ByName[n])],
     Ordered |-> [i \in DOMAIN m.Ordered |-> DerefIn(m.heap, m.Ordered[i])]]

\* getOldSetup: the directory of the .conf files, common.CDB with the
\* oldConfJSON type, one parser, one subdirectory
getOldSetup ==
    [tree |-> "old", extension |-> ".conf", envelope |-> FALSE,
     parsers |-> [k \in {"old-conf"} |-> [v \in {"old-conf"} |-> "oldConf"]],
     subdirs |-> [d \in {"net.d"} |-> {"old-conf"}]]

\* The directory of the current network files: kind network, version v1,
\* under net.d, with the two-field envelope
getNewSetup ==
    [tree |-> "new", extension |-> ".json", envelope |-> TRUE,
     parsers |-> [k \in {"network"} |-> [v \in {"v1"} |-> "networkV1"]],
     subdirs |-> [d \in {"net.d"} |-> {"network"}]]

setupOf(s) == IF s = "oldConf" THEN getOldSetup ELSE getNewSetup

\* oldConfJSON.GetKindAndVersion
oldConfGetKindAndVersion(c) == [err |-> "", kind |-> "old-conf", version |-> "old-conf"]

\* subdirectory.parseConfigFile for the directory set up as setup
netParseConfigFile(setup, h, configs, f) ==
    LET kv == IF setup.envelope THEN GetKindAndVersion(f.c)
              ELSE oldConfGetKindAndVersion(f.c)
        skip(msg) == [err |-> msg, heap |-> h, configs |-> configs, invoked |-> FALSE]
    IN
    IF kv.err # "" THEN skip("failed to get configuration kind and version")
    ELSE IF kv.kind \notin setup.subdirs[f.subdir]
    THEN skip("the configuration directory expects other kinds")
    ELSE IF kv.kind \notin DOMAIN setup.parsers
    THEN skip("no parser available for configuration of kind")
    ELSE IF kv.version \notin DOMAIN setup.parsers[kv.kind]
    THEN skip("no parser available for configuration of kind and version")
    ELSE LET r == IF setup.parsers[kv.kind][kv.version] = "oldConf"
                  THEN oldConfParse(h, configs, f)
                  ELSE networkV1Parse(h, configs, f)
         IN [err |-> r.err, heap |-> r.heap, configs |-> r.configs, invoked |-> TRUE]

\* The files of the toplevel directory with index i that pass
\* validConfigFile in the directory set up as setup
netCandidates(setup, i) ==
    { f \in fs : /\ f.root = i
                 /\ f.tree = setup.tree
                 /\ f.subdir \in DOMAIN setup.subdirs
                 /\ f.mode = "regular"
                 /\ Ext(f.fname) = setup.extension }

\* Directory.WalkDirectories of the network directory: the loop enters the
\* next toplevel directory
NetEnterConfigDirectory ==
    /\ pc = "netWalk"
    /\ todo = {}
    /\ idx < NRoots
    /\ todo' = netCandidates(setupOf(schema), idx)
    /\ idx' = idx + 1
    /\ curSub' = ""
    /\ UNCHANGED <<fs, pc, err, log>>
    /\ UNCHANGED <<cfgVars, netVars, pluginVars, dirVars>>

\* subdirectory.readFile on the next network file; an error ends
\* WalkDirectories, configSetup.run and GetConfigFrom
NetReadFile ==
    /\ pc = "netWalk"
    /\ \E f \in todo :
        /\ nextFile(f)
        /\ LET r == netParseConfigFile(setupOf(schema), Heap(nets, infos), netConfigs, f) IN
            /\ nets' = r.heap.nets
            /\ infos' = r.heap.infos
            /\ netConfigs' = r.configs
            /\ log' = Append(log, [file |-> f, invoked |-> r.invoked, err |-> r.err])
            /\ todo' = todo \ {f}
            /\ curSub' = f.subdir
            /\ IF r.err # ""
               THEN pc' = "netFailed" /\ err' = r.err
               ELSE UNCHANGED <<pc, err>>
    /\ UNCHANGED <<fs, idx, schema, netCfg, netResults>>
    /\ UNCHANGED <<cfgVars, pluginVars, dirVars>>

\* The rest of the resolution of the current network files after
\* WalkDirectories returned nil: newConfig and propagateConfig
NetworkV1Done ==
    /\ pc = "netWalk"
    /\ schema = "networkV1"
    /\ todo = {}
    /\ idx = NRoots
    /\ \E m \in networkV1Propagate(Heap(nets, infos), netConfigs) :
        /\ nets' = m.heap.nets
        /\ infos' = m.heap.infos
        /\ netCfg' = [Networks |-> [ByName |-> m.ByName, Ordered |-> m.Ordered]]
    /\ netResults' = { NetworksOf(m) : m \in networkV1Propagate(Heap(nets, infos), netConfigs) }
    /\ pc' = "netDone"
    /\ UNCHANGED <<fs, idx, todo, curSub, err, log, schema, netConfigs>>
    /\ UNCHANGED <<cfgVars, pluginVars, dirVars>>

\* configSetup.run after walkDirectories returned nil: newConfig and
\* propagateChanges over oldPropagators
OldConfDone ==
    /\ pc = "netWalk"
    /\ schema = "oldConf"
    /\ todo = {}
    /\ idx = NRoots
    /\ \E m \in oldConfPropagate(Heap(nets, infos), netConfigs) :
        /\ nets' = m.heap.nets
        /\ infos' = m.heap.infos
        /\ netCfg' = [Networks |-> [ByName |-> m.ByName, Ordered |-> m.Ordered]]
    /\ netResults' = { NetworksOf(m) : m \in oldConfPropagate(Heap(nets, infos), netConfigs) }
    /\ pc' = "netDone"
    /\ UNCHANGED <<fs, idx, todo, curSub, err, log, schema, netConfigs>>
    /\ UNCHANGED <<cfgVars, pluginVars, dirVars>>


----------------------------------------------------------------------------
(* The network files of the snapshots explored *)

ConfA == << "1", "0", "-", "a", ".conf" >>
ConfB == << "2", "0", "-", "b", ".conf" >>

\* Current network files: full declarations, stubs (no cniConf), and files
\* the parser refuses
NetworkFiles(r) ==
    { File(r, "new", "net.d", NameA, "regular", c) :
        c \in { NetworkC("foo", 0, CNI("bridge")),
                NetworkC("foo", 99, NoCNI),
                NetworkC("bar", 0, CNI("bridge")),
                NetworkC("bar", 0, NoCNI),
                NetworkC("baz", 99, CNI("ptp")),
                NetworkC("foo", 100, CNI("bridge")),
                NetworkC("foo", -1, CNI("bridge")),
                [NetworkC("foo", 0, CNI("bridge")) EXCEPT !.hasPriority = FALSE],
                [NetBlank EXCEPT !.json = "bad"] } }
    \cup { File(r, "new", "net.d", NameB, "regular", c) :
        c \in { NetworkC("foo", 0, NoCNI),
                NetworkC("foo", 99, CNINamed("ptp", "foo")),
                NetworkC("bar", 0, CNI("bridge")),
                NetworkC("bar", 99, NoCNI),
                NetworkC("baz", 0, NoCNI),
                NetworkC("", 0, CNI("bridge")),
                NetworkC("foo", 0, CNINamed("bridge", "bar")) } }

\* Legacy .conf files
OldConfFiles(r) ==
    { File(r, "old", "net.d", ConfA, "regular", c) :
        c \in { OldConfC("foo", "bridge"),
                OldConfC("bar", "ptp"),
                OldConfC("baz", "bridge"),
                [OldConfC("", "") EXCEPT !.json = "bad"] } }
    \cup { File(r, "old", "net.d", ConfB, "regular", c) :
        c \in { OldConfC("foo", "ptp"),
                OldConfC("bar", "bridge"),
                OldConfC("", "") } }

NetUniverse(s) ==
    UNION { IF s = "oldConf" THEN OldConfFiles(r) ELSE NetworkFiles(r) : r \in Roots }

\* A network resolution: the directory set up, and a snapshot of its files
NetInit ==
    /\ schema \in {"networkV1", "oldConf"}
    /\ fs \in { S \in SubsetsUpTo(NetUniverse(schema), MaxNetFiles) : Snapshot(S) }
    /\ pc = "netWalk"
    /\ idx = 0
    /\ todo = {}
    /\ curSub = ""
    /\ err = ""
    /\ log = <<>>
    /\ accs = [t \in Trees |-> [p \in Parsers |-> <<>>]]
    /\ propagators = "none"
    /\ cfg = NoConfig
    /\ nets = <<>>
    /\ infos = <<>>
    /\ netConfigs = <<>>
    /\ netCfg = NoConfig
    /\ netResults = {}
    /\ pluginConfigs = <<>>
    /\ propOpts = <<>>
    /\ pluginCfg = NoConfig
    /\ directory = ""
    /\ dirParsers = EmptyMap
    /\ dirSubdirs = EmptyMap
    /\ stat = EmptyMap
    /\ regLog = <<>>
    /\ pending = {}

NetNext ==
    \/ NetEnterConfigDirectory
    \/ NetReadFile
    \/ NetworkV1Done
    \/ OldConfDone

NetSpec == NetInit /\ [][NetNext]_vars

----------------------------------------------------------------------------
(* oldConfJSONParser as a baseconfig.Parser: Parse called on the .conf files
   of one toplevel directory in any order *)

ConfC == << "3", "0", "-", "c", ".conf" >>

\* The .conf files of the toplevel directory with index 0
OneRootConfFiles ==
    { File(0, "old", "net.d", n, "regular", c) :
        n \in {ConfA, ConfB, ConfC},
        c \in { OldConfC("foo", "bridge"), OldConfC("foo", "ptp"),
                OldConfC("bar", "bridge") } }

OldParseInit ==
    /\ schema = "oldConf"
    /\ fs \in { S \in SUBSET OneRootConfFiles : Snapshot(S) }
    /\ todo = fs
    /\ pc = "parse"
    /\ idx = 0
    /\ curSub = "net.d"
    /\ err = ""
    /\ log = <<>>
    /\ accs = [t \in Trees |-> [p \in Parsers |-> <<>>]]
    /\ propagators = "none"
    /\ cfg = NoConfig
    /\ nets = <<>>
    /\ infos = <<>>
    /\ netConfigs = <<>>
    /\ netCfg = NoConfig
    /\ netResults = {}
    /\ pluginConfigs = <<>>
    /\ propOpts = <<>>
    /\ pluginCfg = NoConfig
    /\ directory = ""
    /\ dirParsers = EmptyMap
    /\ dirSubdirs = EmptyMap
    /\ stat = EmptyMap
    /\ regLog = <<>>
    /\ pending = {}

\* Parser.Parse of oldConfJSONParser on any file not parsed yet
OldConfParseAny ==
    /\ pc = "parse"
    /\ \E f \in todo :
        LET r == oldConfParse(Heap(nets, infos), netConfigs, f) IN
        /\ nets' = r.heap.nets
        /\ infos' = r.heap.infos
        /\ netConfigs' = r.configs
        /\ log' = Append(log, [file |-> f, invoked |-> TRUE, err |-> r.err])
        /\ todo' = todo \ {f}
        /\ IF r.err # ""
           THEN pc' = "parseFailed" /\ err' = r.err
           ELSE UNCHANGED <<pc, err>>
    /\ UNCHANGED <<fs, idx, curSub, schema, netCfg, netResults>>
    /\ UNCHANGED <<cfgVars, pluginVars, dirVars>>

OldParseNext == OldConfParseAny

OldParseSpec == OldParseInit /\ [][OldParseNext]_vars


----------------------------------------------------------------------------
(* What a snapshot declares about its networks, read off the files *)

\* The files declaring the network name
DeclaredBy(name) == { f \in fs : f.c.name = name }

DeclaredNames == { f.c.name : f \in fs }

\* The files among F that carry provider configuration
Full(F) == { f \in F : ~f.c.cniConf.nil }

\* The file of F in the toplevel directory with the greatest index
LastOf(F) == CHOOSE f \in F : \A g \in F : g.root <= f.root

\* The ActiveNet a current network file stands for, pointers followed
Declared(f) ==
    LET h == getActiveNet(Heap(<<>>, <<>>), f.c, FilePath(f)) IN
    [ConfBytes |-> h.nets[1].ConfBytes, Conf |-> h.nets[1].Conf, Runtime |-> h.infos[1]]

\* The entry behind a pointer of the resolved configuration, pointers followed
Deref(an) ==
    [ConfBytes |-> nets[an].ConfBytes, Conf |-> nets[an].Conf,
     Runtime |-> infos[nets[an].Runtime]]

ByName == netCfg.Networks.ByName
Ordered == netCfg.Networks.Ordered

\* The network resolution of the current files returned a Config
NetworkV1Resolved == pc = "netDone" /\ schema = "networkV1"

\* The positions of ordered whose entry goes by the name
PositionsOf(name) == { i \in DOMAIN Ordered : Deref(Ordered[i]).Runtime.NetName = name }

\* C6: when the last toplevel directory declaring a network declares it with
\* provider configuration, and an earlier one declared it too, the resolved
\* entry is entirely the later declaration (raw bytes, parsed provider
\* configuration, runtime information) and the name is in ordered once.
C6_FullOverrideReplaces ==
    NetworkV1Resolved =>
        \A name \in DeclaredNames :
            LET F == DeclaredBy(name) IN
            (Cardinality(F) > 1 /\ ~LastOf(F).c.cniConf.nil) =>
                /\ name \in DOMAIN ByName
                /\ Deref(ByName[name]) = Declared(LastOf(F))
                /\ Cardinality(PositionsOf(name)) = 1

\* Two toplevel directories declare "foo" with different provider types; the
\* second one's configuration is the resolved one and ordered has length 1
C6_Witness ==
    /\ NetworkV1Resolved
    /\ \E f, g \in Full(DeclaredBy("foo")) :
        /\ f.root < g.root
        /\ f.c.cniConf.type # g.c.cniConf.type
        /\ "foo" \in DOMAIN ByName
        /\ Deref(ByName["foo"]).Conf.Type = g.c.cniConf.type
    /\ Len(Ordered) = 1

\* C7: when the last toplevel directory declaring a network declares it
\* without provider configuration and an earlier one declared it with some,
\* the resolved entry keeps the parsed provider configuration and the raw
\* bytes of the last declaration that carries them, and has the runtime
\* information (name, conf path) of the stub.
C7_StubOverrideKeepsConf ==
    NetworkV1Resolved =>
        \A name \in DeclaredNames :
            LET F == DeclaredBy(name) IN
            (Full(F) # {} /\ LastOf(F).c.cniConf.nil) =>
                /\ name \in DOMAIN ByName
                /\ Deref(ByName[name]).Conf = Declared(LastOf(Full(F))).Conf
                /\ Deref(ByName[name]).ConfBytes = Declared(LastOf(Full(F))).ConfBytes
                /\ Deref(ByName[name]).Runtime = Declared(LastOf(F)).Runtime

\* A stub in a later directory changed the conf path of a network whose
\* provider configuration an earlier directory declared
C7_Witness ==
    /\ NetworkV1Resolved
    /\ \E name \in DOMAIN ByName :
        LET F == DeclaredBy(name) IN
        /\ Full(F) # {}
        /\ LastOf(F).c.cniConf.nil
        /\ Deref(ByName[name]).Runtime.ConfPath # Declared(LastOf(Full(F))).Runtime.ConfPath
        /\ ~Deref(ByName[name]).Conf.nil

\* C8: after the merge of the current network files no entry without
\* provider configuration is left in ByName or in ordered: a network that
\* only stubs declare is absent, and every network some file declares with
\* provider configuration is present in both.
C8_NoEmptyEntrySurvives ==
    NetworkV1Resolved =>
        /\ \A i \in DOMAIN Ordered : ~Deref(Ordered[i]).Conf.nil
        /\ \A name \in DOMAIN ByName : ~Deref(ByName[name]).Conf.nil
        /\ \A name \in DeclaredNames :
            IF Full(DeclaredBy(name)) = {}
            THEN name \notin DOMAIN ByName /\ PositionsOf(name) = {}
            ELSE name \in DOMAIN ByName /\ PositionsOf(name) # {}

\* Two networks declared by stubs only were dropped next to one that stays
C8_Witness ==
    /\ NetworkV1Resolved
    /\ \E n1, n2, n3 \in DeclaredNames :
        /\ n1 # n2
        /\ Full(DeclaredBy(n1)) = {} /\ Full(DeclaredBy(n2)) = {}
        /\ n3 \in DOMAIN ByName
    /\ Len(Ordered) = 1

\* C9: after every successful network resolution, of the current files or
\* of the legacy ones, ordered has no duplicates, is as long as ByName has
\* keys, and each entry of ordered is the value ByName stores under the
\* entry's own network name.
C9_ByNameOrderedConsistent ==
    pc = "netDone" =>
        /\ \A i, j \in DOMAIN Ordered : Ordered[i] = Ordered[j] => i = j
        /\ Len(Ordered) = Cardinality(DOMAIN ByName)
        /\ \A i \in DOMAIN Ordered :
            /\ Deref(Ordered[i]).Runtime.NetName \in DOMAIN ByName
            /\ ByName[Deref(Ordered[i]).Runtime.NetName] = Ordered[i]

\* A merge over two directories that overrode one network and dropped a
\* network only a stub declares
C9_Witness ==
    /\ NetworkV1Resolved
    /\ Len(Ordered) = 1
    /\ \E name \in DeclaredNames : Full(DeclaredBy(name)) = {}
    /\ \E name \in DOMAIN ByName : Cardinality(DeclaredBy(name)) > 1

\* The base name of the file an entry of ordered comes from, under either
\* reading: the file its runtime information is from, the file its provider
\* configuration is from
RuntimeFileName(an) == LastOf(DeclaredBy(Deref(an).Runtime.NetName)).fname
ConfFileName(an) == LastOf(Full(DeclaredBy(Deref(an).Runtime.NetName))).fname

\* C10 as stated: ordered is sorted by the base filename of the file that
\* produced each entry.
C10_SortedByProducingFile ==
    NetworkV1Resolved =>
        \/ \A i, j \in DOMAIN Ordered :
            i < j => ~StrLess(RuntimeFileName(Ordered[j]), RuntimeFileName(Ordered[i]))
        \/ \A i, j \in DOMAIN Ordered :
            i < j => ~StrLess(ConfFileName(Ordered[j]), ConfFileName(Ordered[i]))

\* C10: after the merge of the current network files, ordered is sorted by
\* the base name of each entry's conf path, which is the two-digit priority,
\* a dash, the declaring file's name without extension, and ".conf", all
\* taken from the last toplevel directory declaring the network: no entry is
\* followed by one whose conf path base name is less.
C10_SortedByConfPath ==
    NetworkV1Resolved =>
        /\ \A i, j \in DOMAIN Ordered :
            i < j => ~StrLess(Base(Deref(Ordered[j]).Runtime.ConfPath),
                              Base(Deref(Ordered[i]).Runtime.ConfPath))
        /\ \A i \in DOMAIN Ordered :
            LET f == LastOf(DeclaredBy(Deref(Ordered[i]).Runtime.NetName)) IN
            Base(Deref(Ordered[i]).Runtime.ConfPath) =
                Decimal02(f.c.priority) \o << "-" >> \o TrimExt(f.fname) \o << ".conf" >>

\* Two entries whose priorities order them against their file names
C10_Witness ==
    /\ NetworkV1Resolved
    /\ Len(Ordered) = 2
    /\ StrLess(RuntimeFileName(Ordered[2]), RuntimeFileName(Ordered[1]))
    /\ StrLess(Base(Deref(Ordered[1]).Runtime.ConfPath),
               Base(Deref(Ordered[2]).Runtime.ConfPath))


\* The Networks returned, every pointer followed
Returned == NetworksOf(Merged(Heap(nets, infos), ByName, Ordered))

\* C11 as stated: a resolved network configuration (ordered and every conf
\* path, legacy position suffixes included) is the only one the snapshot can
\* resolve to, whatever order the maps are ranged in and however the sort
\* arranges entries with equal keys.
C11_NetworksDetermined ==
    pc = "netDone" => netResults = { Returned }


\* The walk of the current network files, running or ended
NetworkV1Walk == schema = "networkV1" /\ pc \in {"netWalk", "netFailed", "netDone"}

\* The file read as the i-th passes validateNetworkV1
Validated(i) == log[i].file.c.json # "bad" /\ validateNetworkV1(log[i].file.c) = ""

\* An earlier file read under the same root index declares the same name
RedeclaresNetwork(j) ==
    \E i \in 1 .. (j - 1) :
        /\ log[i].file.root = log[j].file.root
        /\ log[i].file.c.name = log[j].file.c.name

\* C12: a current network file that passes validation and declares a name
\* an earlier file of the same root index declared, with or without provider
\* configuration in either, fails with the already-defined error, is the
\* last file read, and the resolution fails without a Config; no other file
\* gets that error, so the same name under different roots is no error.
C12_DuplicateNetworkInRootFails ==
    NetworkV1Walk =>
        \A j \in DOMAIN log :
            /\ (Validated(j) /\ RedeclaresNetwork(j)) =>
                    /\ log[j].err = "network was already defined"
                    /\ j = Len(log)
                    /\ pc = "netFailed"
                    /\ err = log[j].err
                    /\ netCfg = NoConfig
            /\ log[j].err = "network was already defined" =>
                    Validated(j) /\ RedeclaresNetwork(j)

\* A stub and a full declaration of one name under one root index: the
\* second one read failed the resolution
C12_Witness ==
    /\ schema = "networkV1"
    /\ pc = "netFailed"
    /\ Len(log) = 2
    /\ log[2].err = "network was already defined"
    /\ log[1].file.c.cniConf.nil # log[2].file.c.cniConf.nil

\* The entries the accumulators of the network parser hold
Accumulated == UNION { Range(netConfigs[i].Ordered) : i \in DOMAIN netConfigs }

PriorityErrors == {"missing a priority field", "a priority field is invalid"}

\* C13: a current network file is refused for its priority exactly when the
\* priority is missing or outside 0..99; the refused file ends the
\* resolution and leaves no entry and no accumulator behind, each file
\* read before it having left one entry.
C13_PriorityRange ==
    NetworkV1Walk =>
        \A j \in DOMAIN log :
            LET c == log[j].file.c IN
            c.json # "bad" =>
                /\ log[j].err \in PriorityErrors <=>
                        (~c.hasPriority \/ c.priority < 0 \/ c.priority > 99)
                /\ log[j].err \in PriorityErrors =>
                        /\ pc = "netFailed"
                        /\ j = Len(log)
                        /\ Cardinality(Accumulated) = j - 1
                        /\ Len(nets) = j - 1
                        /\ \A i \in DOMAIN netConfigs :
                            \E k \in 1 .. (j - 1) : log[k].file.root >= i - 1

\* Files with the priorities 0 and 99 were accepted and resolved
C13_Witness ==
    /\ NetworkV1Resolved
    /\ \E i, j \in DOMAIN log :
        /\ log[i].file.c.priority = 0 /\ log[i].err = ""
        /\ log[j].file.c.priority = 99 /\ log[j].err = ""
    /\ Len(Ordered) = 2


----------------------------------------------------------------------------
(* The legacy network merge *)

\* The ActiveNet a legacy .conf file stands for, pointers followed
OldDeclared(f) == DerefIn(oldGetActiveNet(Heap(<<>>, <<>>), f.c, FilePath(f)), 1)

\* The file of F whose path sorts first, and the one whose path sorts last
FirstPath(F) == CHOOSE f \in F : \A g \in F : ~PathLess(FilePath(g), FilePath(f))
LastPath(F) == CHOOSE f \in F : \A g \in F : ~PathLess(FilePath(f), FilePath(g))

\* The files of F in the toplevel directory with the greatest index
InLastRoot(F) == { f \in F : \A g \in F : g.root <= f.root }

LegacyResolved == pc = "netDone" /\ schema = "oldConf"

\* The entry of the returned Networks is the one the file f stands for, its
\* conf path taken before the rewriting of the positions
ComesFrom(e, f) ==
    /\ e.ConfBytes = OldDeclared(f).ConfBytes
    /\ e.Conf = OldDeclared(f).Conf
    /\ e.Runtime.NetName = OldDeclared(f).Runtime.NetName
    /\ Dir(e.Runtime.ConfPath) = Dir(FilePath(f))
    /\ \E i \in 0 .. Len(Ordered) :
        Base(e.Runtime.ConfPath) = TrimExt(f.fname) \o << "-" >> \o Decimal(i) \o << Ext(f.fname) >>

\* C14 as stated: of the legacy files declaring one network name, the one
\* whose path sorts greatest gives the surviving entry.
C14_GreaterPathSurvives ==
    LegacyResolved =>
        \A name \in DOMAIN ByName :
            ComesFrom(Returned.ByName[name], LastPath(DeclaredBy(name)))

\* C14: of the legacy files declaring one network name, the surviving entry
\* is the one of the highest-indexed toplevel directory declaring it, and
\* among the files of that directory the one whose path sorts first.
C14_LastRootFirstPathSurvives ==
    LegacyResolved =>
        \A name \in DOMAIN ByName :
            ComesFrom(Returned.ByName[name], FirstPath(InLastRoot(DeclaredBy(name))))

\* Two files of one directory declare one name with different types: the
\* entry of the file sorting first survived
C14_Witness ==
    /\ LegacyResolved
    /\ \E f, g \in fs :
        /\ f.root = g.root
        /\ f.c.name = g.c.name
        /\ f.c.type # g.c.type
        /\ StrLess(f.fname, g.fname)
        /\ f.c.name \in DOMAIN ByName
        /\ Returned.ByName[f.c.name].Conf.Type = f.c.type

\* The files parsed without error so far
Parsed == { log[i].file : i \in { k \in DOMAIN log : log[k].err = "" } }

\* C15: whatever order oldConfJSONParser.Parse is called in on the .conf
\* files of one toplevel directory, the entry its accumulator keeps for a
\* network name is the one of the file whose path sorts first among the
\* files parsed that declare it.
C15_FirstPathKeptInRoot ==
    (schema = "oldConf" /\ pc \in {"parse", "parseFailed"}) =>
        /\ Len(netConfigs) <= 1
        /\ \A k \in DOMAIN netConfigs :
            /\ DOMAIN netConfigs[k].ByName = { f.c.name : f \in Parsed }
            /\ Len(netConfigs[k].Ordered) = Cardinality(DOMAIN netConfigs[k].ByName)
            /\ \A name \in DOMAIN netConfigs[k].ByName :
                /\ DerefIn(Heap(nets, infos), netConfigs[k].ByName[name]) =
                        OldDeclared(FirstPath({ f \in Parsed : f.c.name = name }))
                /\ \E i \in DOMAIN netConfigs[k].Ordered :
                        netConfigs[k].Ordered[i] = netConfigs[k].ByName[name]

\* The file sorting later was parsed first and gave way to the other
C15_Witness ==
    /\ schema = "oldConf"
    /\ pc = "parse"
    /\ Len(log) = 2
    /\ log[1].file.c.name = log[2].file.c.name
    /\ log[1].file.c.type # log[2].file.c.type
    /\ StrLess(log[2].file.fname, log[1].file.fname)
    /\ DerefIn(Heap(nets, infos), netConfigs[1].ByName[log[1].file.c.name]).Conf.Type
            = log[2].file.c.type


\* C16: in the legacy merge every declared network name is kept, once, and
\* the entry of a name several toplevel directories declare is entirely
\* that of the highest-indexed one (raw bytes, parsed configuration, name
\* and directory of the conf path), however the file names compare.
C16_LaterRootReplacesLegacy ==
    LegacyResolved =>
        /\ DOMAIN ByName = DeclaredNames
        /\ Len(Ordered) = Cardinality(DeclaredNames)
        /\ \A name \in DeclaredNames :
            LET e == Returned.ByName[name]
                L == InLastRoot(DeclaredBy(name))
            IN /\ Dir(e.Runtime.ConfPath) \in { Dir(FilePath(f)) : f \in L }
               /\ e.ConfBytes \in { OldDeclared(f).ConfBytes : f \in L }
               /\ e.Conf \in { OldDeclared(f).Conf : f \in L }
               /\ e.Runtime.NetName = name

\* The second directory's file sorts before the first directory's file of
\* the same network and still replaced it; a network only the first
\* directory declares is kept
C16_Witness ==
    /\ LegacyResolved
    /\ \E f, g, k \in fs :
        /\ f.root < g.root
        /\ f.c.name = g.c.name
        /\ f.c.type # g.c.type
        /\ StrLess(g.fname, f.fname)
        /\ Returned.ByName[f.c.name].Conf.Type = g.c.type
        /\ k.c.name # f.c.name
        /\ k.c.name \in DOMAIN ByName
    /\ Len(Ordered) = 2

\* The file the entry at a position of ordered comes from
OriginOf(e) == FirstPath(InLastRoot(DeclaredBy(e.Runtime.NetName)))

\* C17: after the legacy merge the entry at position i of ordered (counted
\* from 0, ordered being sorted by the original base file names) has its
\* conf path in the directory of its file, with the base name
\* <stem>-<i><ext>, and no two entries have the same base name.
C17_PositionSuffixes ==
    LegacyResolved =>
        /\ \A i \in DOMAIN Ordered :
            LET e == Returned.Ordered[i]
                f == OriginOf(e)
            IN e.Runtime.ConfPath =
                 Path(Dir(FilePath(f)),
                      TrimExt(f.fname) \o << "-" >> \o Decimal(i - 1) \o << Ext(f.fname) >>)
        /\ \A i, j \in DOMAIN Ordered :
            /\ i < j => ~StrLess(OriginOf(Returned.Ordered[j]).fname,
                                 OriginOf(Returned.Ordered[i]).fname)
            /\ i # j => Base(Returned.Ordered[i].Runtime.ConfPath)
                            # Base(Returned.Ordered[j].Runtime.ConfPath)

\* Two files 10-a.conf of two directories became 10-a-0.conf and 10-a-1.conf
C17_Witness ==
    /\ LegacyResolved
    /\ Len(Ordered) = 2
    /\ OriginOf(Returned.Ordered[1]).fname = ConfA
    /\ OriginOf(Returned.Ordered[2]).fname = ConfA
    /\ Base(Returned.Ordered[1].Runtime.ConfPath) = << "1", "0", "-", "a", "-", "0", ".conf" >>
    /\ Base(Returned.Ordered[2].Runtime.ConfPath) = << "1", "0", "-", "a", "-", "1", ".conf" >>


----------------------------------------------------------------------------
(* rkt/config: the default stage1 image and the paths *)

\* The file read as the j-th went to the stage1 parser
Stage1Read(j) ==
    /\ log[j].invoked
    /\ log[j].file.c.rktKind = "stage1"
    /\ log[j].file.c.json = "ok"

\* A name without a version or a version without a name
Unpaired(c) == (c.name = "") # (c.version = "")

\* No location, an absolute path, or a URL with an allowed scheme
ValidLocation(l) == l = <<>> \/ IsAbs(l) \/ UrlScheme(l) \in allowedSchemes

\* An earlier file went to the stage1 parser under the same root index of
\* the same directory
EarlierStage1(j) ==
    \E i \in 1 .. (j - 1) :
        /\ Stage1Read(i)
        /\ log[i].file.root = log[j].file.root
        /\ log[i].file.tree = log[j].file.tree

\* C18: a stage1 file that sets the name without the version or the
\* version without the name is refused, with a location or without, and
\* fails the resolution; a file that sets both or neither, with no
\* location or a valid one, is accepted.
C18_Stage1NameVersionPaired ==
    pc \in {"walkNew", "walkOld", "failed", "done"} =>
        \A j \in DOMAIN log :
            Stage1Read(j) =>
                /\ Unpaired(log[j].file.c) =>
                        /\ log[j].err = "invalid stage1 configuration"
                        /\ j = Len(log)
                        /\ pc = "failed"
                        /\ cfg = NoConfig
                /\ (~Unpaired(log[j].file.c) /\ ValidLocation(log[j].file.c.location)
                        /\ ~EarlierStage1(j)) => log[j].err = ""

\* A file with a name, no version and a location was refused
C18_Witness ==
    /\ pc = "failed"
    /\ Len(log) > 0
    /\ Stage1Read(Len(log))
    /\ log[Len(log)].file.c.name # ""
    /\ log[Len(log)].file.c.version = ""
    /\ log[Len(log)].file.c.location # <<>>
    /\ err = "invalid stage1 configuration"

\* The directory whose propagators made the Config
ResolvedTree == IF propagators = "new" THEN "new" ELSE "old"

\* C19: in every effective Config the stage1 name and version are those of
\* the highest-indexed root declaring a name, both taken from that one
\* root (both empty when no root declares a name), and the location is
\* that of the highest-indexed root declaring a location, whatever the
\* other roots declare of the name and the version.
C19_Stage1PairAtomic ==
    pc = "done" =>
        LET F == OfKind(ResolvedTree, "stage1")
            N == { f \in F : f.c.name # "" }
            L == { f \in F : f.c.location # <<>> }
        IN /\ IF N = {}
              THEN cfg.Stage1.Name = "" /\ cfg.Stage1.Version = ""
              ELSE /\ cfg.Stage1.Name = LastOf(N).c.name
                   /\ cfg.Stage1.Version = LastOf(N).c.version
           /\ cfg.Stage1.Location = (IF L = {} THEN <<>> ELSE LastOf(L).c.location)
           /\ (cfg.Stage1.Name = "") = (cfg.Stage1.Version = "")

\* The later root declared a location only, or a name and version only, and
\* the Config holds the earlier root's other part next to it
C19_Witness ==
    /\ pc = "done"
    /\ \E f, g \in OfKind(ResolvedTree, "stage1") :
        /\ f.root < g.root
        /\ \/ /\ f.c.name # "" /\ g.c.name = "" /\ g.c.location # <<>>
              /\ cfg.Stage1.Name = f.c.name
              /\ cfg.Stage1.Version = f.c.version
              /\ cfg.Stage1.Location = g.c.location
           \/ /\ f.c.location # <<>> /\ g.c.location = <<>> /\ g.c.name # ""
              /\ f.c.name # g.c.name
              /\ cfg.Stage1.Name = g.c.name
              /\ cfg.Stage1.Version = g.c.version
              /\ cfg.Stage1.Location = f.c.location

\* C20: in every effective Config the data directory is the one of the
\* highest-indexed root declaring it non-empty, and so is, on its own, the
\* stage1 images directory; a root not declaring a field leaves the value
\* an earlier root gave it.
C20_PathsLastNonEmptyWins ==
    pc = "done" =>
        LET F == OfKind(ResolvedTree, "paths")
            D == { f \in F : f.c.data # <<>> }
            S == { f \in F : f.c.stage1Images # <<>> }
        IN /\ cfg.Paths.DataDir = (IF D = {} THEN <<>> ELSE LastOf(D).c.data)
           /\ cfg.Paths.Stage1ImagesDir =
                (IF S = {} THEN <<>> ELSE LastOf(S).c.stage1Images)

\* The later root declared the data directory only: it replaced the earlier
\* root's, whose stage1 images directory stayed
C20_Witness ==
    /\ pc = "done"
    /\ \E f, g \in OfKind(ResolvedTree, "paths") :
        /\ f.root < g.root
        /\ f.c.data # <<>> /\ f.c.stage1Images # <<>>
        /\ g.c.data # <<>> /\ g.c.data # f.c.data /\ g.c.stage1Images = <<>>
        /\ cfg.Paths.DataDir = g.c.data
        /\ cfg.Paths.Stage1ImagesDir = f.c.stage1Images

----------------------------------------------------------------------------
(* networking/config: the network plugin directories (kind paths, version   *)
(* v1, of the network configuration directory)                              *)

\* The content of a paths file: netPluginDirs.discardPrevious (a *bool, nil
\* when absent) and netPluginDirs.paths (a slice, nil when absent)
PluginPathsC(hasDiscard, discard, hasPaths, paths) ==
    [ json |-> "ok", rktKind |-> "paths", rktVersion |-> "v1",
      hasDiscard |-> hasDiscard, discard |-> discard,
      hasPaths |-> hasPaths, paths |-> paths ]

\* A []string: nil, or a list
NilDirs == [set |-> FALSE, dirs |-> <<>>]
Dirs(l) == [set |-> TRUE, dirs |-> l]

\* newConfig of the network Config, as far as the plugin directories go
newPluginConfig == [PluginDirs |-> NilDirs]

\* parserBase.getConfig
getPluginConfig(configs, i) ==
    IF Len(configs) <= i
    THEN configs \o [k \in 1 .. (i + 1 - Len(configs)) |-> newPluginConfig]
    ELSE configs

\* The unset option map of one index
NoOpts == [isSet |-> FALSE, value |-> FALSE]

\* getPropOpts: the option map of index i, the list padded up to it
getPropOpts(opts, i) ==
    IF Len(opts) <= i
    THEN opts \o [k \in 1 .. (i + 1 - Len(opts)) |-> NoOpts]
    ELSE opts

PluginOk(configs, opts) == [err |-> "", configs |-> configs, opts |-> opts]
PluginFail(msg, configs, opts) == [err |-> msg, configs |-> configs, opts |-> opts]

\* pathsV1JSONParser.handleDiscard
handleDiscard(configs, opts, i, c) ==
    IF ~c.hasDiscard THEN PluginOk(configs, opts)
    ELSE LET padded == getPropOpts(opts, i) IN
         IF padded[i + 1].isSet
         THEN PluginFail("discarding of previous network plugin directories were already set",
                         configs, padded)
         ELSE PluginOk(configs,
                       [padded EXCEPT ![i + 1] = [isSet |-> TRUE, value |-> c.discard]])

\* pathsV1JSONParser.handlePaths
handlePaths(configs, opts, i, c) ==
    IF ~c.hasPaths THEN PluginOk(configs, opts)
    ELSE LET padded == getPluginConfig(configs, i) IN
         IF padded[i + 1].PluginDirs.set
         THEN PluginFail("network plugin dirs were already set", padded, opts)
         ELSE IF \E k \in DOMAIN c.paths : ~IsAbs(c.paths[k])
         THEN PluginFail("network plugin path is not absolute", padded, opts)
         ELSE PluginOk([padded EXCEPT ![i + 1].PluginDirs = Dirs(c.paths)], opts)

\* pathsV1JSONParser.Parse
pluginPathsParse(configs, opts, i, c) ==
    IF c.json = "bad" THEN PluginFail("error loading", configs, opts)
    ELSE LET d == handleDiscard(configs, opts, i, c) IN
         IF d.err # "" THEN d
         ELSE handlePaths(d.configs, d.opts, i, c)

\* Go's append(a, b...) on two []string
appendDirs(a, b) ==
    [set |-> a.set \/ Len(b.dirs) > 0, dirs |-> a.dirs \o b.dirs]

\* A variant of the merge in which a later list replaces the earlier ones
\* whenever it is not empty
RECURSIVE pluginPathsPropagateLastWins(_, _, _, _)
pluginPathsPropagateLastWins(dirs, configs, opts, i) ==
    IF i > Len(configs) THEN dirs
    ELSE pluginPathsPropagateLastWins(
             IF Len(configs[i].PluginDirs.dirs) > 0 THEN configs[i].PluginDirs
             ELSE dirs,
             configs, opts, i + 1)

\* pathsV1JSONParser.propagateConfig, from the accumulator at position i on
RECURSIVE pluginPathsPropagate(_, _, _, _)
pluginPathsPropagate(dirs, configs, opts, i) ==
    IF i > Len(configs) THEN dirs
    ELSE LET o == getPropOpts(opts, i - 1)[i]
             discard == IF o.isSet THEN o.value ELSE FALSE
         IN pluginPathsPropagate(
                IF discard THEN configs[i].PluginDirs
                ELSE appendDirs(configs[i].PluginDirs, dirs),
                configs, opts, i + 1)

\* The network configuration directory as far as the plugin directories
\* go: kind paths, version v1, under paths.d, with the two-field envelope
getPathsSetup ==
    [tree |-> "new", extension |-> ".json", envelope |-> TRUE,
     parsers |-> [k \in {"paths"} |-> [v \in {"v1"} |-> "pathsV1"]],
     subdirs |-> [d \in {"paths.d"} |-> {"paths"}]]

\* subdirectory.parseConfigFile in the directory set up by getPathsSetup
pluginParseConfigFile(setup, configs, opts, f) ==
    LET kv == GetKindAndVersion(f.c)
        skip(msg) == [err |-> msg, configs |-> configs, opts |-> opts,
                      invoked |-> FALSE]
    IN
    IF kv.err # "" THEN skip("failed to get configuration kind and version")
    ELSE IF kv.kind \notin setup.subdirs[f.subdir]
    THEN skip("the configuration directory expects other kinds")
    ELSE IF kv.kind \notin DOMAIN setup.parsers
    THEN skip("no parser available for configuration of kind")
    ELSE IF kv.version \notin DOMAIN setup.parsers[kv.kind]
    THEN skip("no parser available for configuration of kind and version")
    ELSE LET r == pluginPathsParse(configs, opts, f.root, f.c) IN
         [err |-> r.err, configs |-> r.configs, opts |-> r.opts, invoked |-> TRUE]

\* Directory.WalkDirectories over the paths files: the loop enters the next
\* toplevel directory
PluginEnterConfigDirectory ==
    /\ pc = "pluginWalk"
    /\ todo = {}
    /\ idx < NRoots
    /\ todo' = netCandidates(getPathsSetup, idx)
    /\ idx' = idx + 1
    /\ curSub' = ""
    /\ UNCHANGED <<fs, pc, err, log>>
    /\ UNCHANGED <<cfgVars, netVars, pluginVars, dirVars>>

\* subdirectory.readFile on the next paths file; an error ends the walk
PluginReadFile ==
    /\ pc = "pluginWalk"
    /\ \E f \in todo :
        /\ nextFile(f)
        /\ LET r == pluginParseConfigFile(getPathsSetup, pluginConfigs, propOpts, f) IN
            /\ pluginConfigs' = r.configs
            /\ propOpts' = r.opts
            /\ log' = Append(log, [file |-> f, invoked |-> r.invoked, err |-> r.err])
            /\ todo' = todo \ {f}
            /\ curSub' = f.subdir
            /\ IF r.err # ""
               THEN pc' = "pluginFailed" /\ err' = r.err
               ELSE UNCHANGED <<pc, err>>
    /\ UNCHANGED <<fs, idx, pluginCfg>>
    /\ UNCHANGED <<cfgVars, netVars, dirVars>>

\* After WalkDirectories returned nil: newConfig and propagateConfig
PluginDone ==
    /\ pc = "pluginWalk"
    /\ todo = {}
    /\ idx = NRoots
    /\ pluginCfg' = [PluginDirs |-> pluginPathsPropagate(NilDirs, pluginConfigs, propOpts, 1)]
    /\ pc' = "pluginDone"
    /\ UNCHANGED <<fs, idx, todo, curSub, err, log, pluginConfigs, propOpts>>
    /\ UNCHANGED <<cfgVars, netVars, dirVars>>

PluginA == << "/", "a" >>
PluginB == << "/", "b" >>
PluginRel == << "a" >>

\* Paths files: lists with and without discardPrevious, the flag alone, an
\* empty list, and files the parser refuses
PluginPathsFiles(r) ==
    { File(r, "new", "paths.d", NameA, "regular", c) :
        c \in { PluginPathsC(FALSE, FALSE, TRUE, << PluginA >>),
                PluginPathsC(TRUE, TRUE, TRUE, << PluginB >>),
                PluginPathsC(TRUE, FALSE, TRUE, << PluginA, PluginB >>),
                PluginPathsC(TRUE, TRUE, FALSE, <<>>),
                PluginPathsC(FALSE, FALSE, TRUE, <<>>),
                PluginPathsC(FALSE, FALSE, TRUE, << PluginA, PluginRel >>),
                [PluginPathsC(FALSE, FALSE, FALSE, <<>>) EXCEPT !.json = "bad"] } }
    \cup { File(r, "new", "paths.d", NameB, "regular", c) :
        c \in { PluginPathsC(FALSE, FALSE, TRUE, << PluginB >>),
                PluginPathsC(TRUE, TRUE, FALSE, <<>>),
                PluginPathsC(TRUE, FALSE, FALSE, <<>>) } }

PluginUniverse == UNION { PluginPathsFiles(r) : r \in Roots }

\* A resolution of the plugin directories over a snapshot of paths files
PluginInit ==
    /\ fs \in { S \in SubsetsUpTo(PluginUniverse, MaxFiles) : Snapshot(S) }
    /\ pc = "pluginWalk"
    /\ idx = 0
    /\ todo = {}
    /\ curSub = ""
    /\ err = ""
    /\ log = <<>>
    /\ accs = [t \in Trees |-> [p \in Parsers |-> <<>>]]
    /\ propagators = "none"
    /\ cfg = NoConfig
    /\ schema = "none"
    /\ nets = <<>>
    /\ infos = <<>>
    /\ netConfigs = <<>>
    /\ netCfg = NoConfig
    /\ netResults = {}
    /\ pluginConfigs = <<>>
    /\ propOpts = <<>>
    /\ pluginCfg = NoConfig
    /\ directory = ""
    /\ dirParsers = EmptyMap
    /\ dirSubdirs = EmptyMap
    /\ stat = EmptyMap
    /\ regLog = <<>>
    /\ pending = {}

PluginNext ==
    \/ PluginEnterConfigDirectory
    \/ PluginReadFile
    \/ PluginDone

PluginSpec == PluginInit /\ [][PluginNext]_vars

----------------------------------------------------------------------------
(* The network plugin directories resolved, against the snapshot *)

PathsFilesOf(r) == { f \in fs : f.root = r /\ f.tree = "new" /\ f.subdir = "paths.d" }

\* The list the toplevel directory r declares (empty when it declares none)
PluginListOf(r) ==
    IF \E f \in PathsFilesOf(r) : f.c.hasPaths
    THEN (CHOOSE f \in PathsFilesOf(r) : f.c.hasPaths).c.paths
    ELSE <<>>

\* The toplevel directory r sets discardPrevious to true
DiscardsPrevious(r) == \E f \in PathsFilesOf(r) : f.c.hasDiscard /\ f.c.discard

\* The toplevel directories that declare a list
ListRoots == { r \in Roots : \E f \in PathsFilesOf(r) : f.c.hasPaths }

\* The toplevel directories that have an accumulator: those up to the last
\* one declaring a list
AccumulatorRoots == { r \in Roots : \E q \in ListRoots : r <= q }

\* The first toplevel directory whose list is kept: the last one with an
\* accumulator that discards the previous lists, the first one otherwise
FirstKept ==
    IF \E r \in AccumulatorRoots : DiscardsPrevious(r)
    THEN CHOOSE r \in AccumulatorRoots :
            /\ DiscardsPrevious(r)
            /\ \A q \in AccumulatorRoots : DiscardsPrevious(q) => q <= r
    ELSE 0

\* The lists of the toplevel directories hi down to lo, one after another
RECURSIVE ConcatDown(_, _)
ConcatDown(hi, lo) ==
    IF hi < lo THEN <<>> ELSE PluginListOf(hi) \o ConcatDown(hi - 1, lo)

NonEmptyListRoots == { r \in ListRoots : PluginListOf(r) # <<>> }

\* The list of the last toplevel directory declaring a non-empty list
LastNonEmptyList ==
    IF NonEmptyListRoots = {} THEN <<>>
    ELSE PluginListOf(CHOOSE r \in NonEmptyListRoots :
                          \A q \in NonEmptyListRoots : q <= r)

----------------------------------------------------------------------------
(* rkt/config: resolutions over paths and stage1 files only, two file names *)
(* in each subdirectory                                                     *)

ScalarFiles(r) ==
    { File(r, "new", "paths.d", NameA, "regular", c) :
        c \in { PathsC(AbsA, <<>>), PathsC(<<>>, AbsB), PathsC(AbsB, AbsA),
                PathsC(RelA, <<>>), PathsC(<<>>, RelA), PathsC(AbsA, RelA) } }
    \cup { File(r, "new", "paths.d", NameB, "regular", c) :
        c \in { PathsC(AbsB, <<>>), PathsC(<<>>, AbsA), PathsC(AbsA, AbsB) } }
    \cup { File(r, "new", "stage1.d", NameA, "regular", c) :
        c \in { Stage1C("n1", "1.0", <<>>), Stage1C("", "", AbsA),
                Stage1C("n1", "1.0", AbsA) } }
    \cup { File(r, "new", "stage1.d", NameB, "regular", c) :
        c \in { Stage1C("n2", "2.0", <<>>), Stage1C("", "", AbsB),
                Stage1C("n2", "2.0", AbsB), Stage1C("", "", <<>>) } }
    \cup { File(r, "old", "paths.d", NameA, "regular", PathsC(AbsA, <<>>)),
           File(r, "old", "paths.d", NameB, "regular", PathsC(AbsB, <<>>)) }

ScalarUniverse == UNION { ScalarFiles(r) : r \in Roots }

ScalarInit ==
    /\ fs \in { S \in SubsetsUpTo(ScalarUniverse, MaxFiles) : Snapshot(S) }
    /\ pc = "walkNew"
    /\ idx = 0
    /\ todo = {}
    /\ curSub = ""
    /\ accs = [t \in Trees |-> [p \in Parsers |-> <<>>]]
    /\ propagators = "none"
    /\ cfg = NoConfig
    /\ err = ""
    /\ log = <<>>
    /\ schema = "none"
    /\ nets = <<>>
    /\ infos = <<>>
    /\ netConfigs = <<>>
    /\ netCfg = NoConfig
    /\ netResults = {}
    /\ pluginConfigs = <<>>
    /\ propOpts = <<>>
    /\ pluginCfg = NoConfig
    /\ directory = ""
    /\ dirParsers = EmptyMap
    /\ dirSubdirs = EmptyMap
    /\ stat = EmptyMap
    /\ regLog = <<>>
    /\ pending = {}

ScalarSpec == ScalarInit /\ [][Next]_vars

\* The scalar fields a paths or stage1 file declares
ScalarFields(f) ==
    IF f.c.rktKind = "paths"
    THEN { k \in {"data", "stage1Images"} : f.c[k] # <<>> }
    ELSE IF f.c.rktKind = "stage1"
    THEN { k \in {"name"} : f.c.name # "" } \cup { k \in {"location"} : f.c.location # <<>> }
    ELSE {}

\* The files read at i and j went to the same parser under the same root
\* index of the same directory
SameAccumulator(i, j) ==
    /\ i < j
    /\ log[i].invoked /\ log[j].invoked
    /\ log[i].file.c.rktKind = log[j].file.c.rktKind
    /\ log[i].file.tree = log[j].file.tree
    /\ log[i].file.root = log[j].file.root

AlreadySpecified ==
    [ data |-> "data directory is already specified",
      stage1Images |-> "stage1 images directory is already specified",
      name |-> "name and version of a default stage1 image are already specified",
      location |-> "location of a default stage1 image is already specified" ]

\* Neither field of a paths file is a relative path
AbsolutePaths(c) ==
    /\ c.data = <<>> \/ IsAbs(c.data)
    /\ c.stage1Images = <<>> \/ IsAbs(c.stage1Images)

\* C22: a second file of one root index that declares dataDir,
\* stage1ImagesDir, the stage1 name/version pair or the stage1 location
\* again is refused by the parser when it is read, which fails the
\* resolution before any merge; an already-specified error has no other
\* cause; two files of one root index declaring different fields are both
\* accepted.
C22_ScalarRedeclaredInRootFails ==
    /\ \A i, j \in DOMAIN log :
         (SameAccumulator(i, j)
            /\ ScalarFields(log[i].file) \cap ScalarFields(log[j].file) # {})
         => /\ j = Len(log)
            /\ log[j].err # ""
            /\ pc = "failed"
            /\ cfg = NoConfig
    /\ \A j \in DOMAIN log : \A k \in DOMAIN AlreadySpecified :
         log[j].err = AlreadySpecified[k]
            => \E i \in DOMAIN log :
                 /\ SameAccumulator(i, j)
                 /\ k \in ScalarFields(log[i].file) \cap ScalarFields(log[j].file)
    /\ \A i, j \in DOMAIN log :
         (SameAccumulator(i, j)
            /\ ScalarFields(log[i].file) # {}
            /\ ScalarFields(log[j].file) # {}
            /\ ScalarFields(log[i].file) \cap ScalarFields(log[j].file) = {}
            /\ AbsolutePaths(log[j].file.c)
            /\ ~Unpaired(log[j].file.c)
            /\ ValidLocation(log[j].file.c.location))
         => log[j].err = ""

\* C22 witness: the resolution failed at the second paths file of a root,
\* which declares the data directory the first one declared.
C22_Witness ==
    /\ pc = "failed"
    /\ err = AlreadySpecified["data"]
    /\ \E i \in DOMAIN log :
        /\ SameAccumulator(i, Len(log))
        /\ log[i].file.fname # log[Len(log)].file.fname
        /\ "data" \in ScalarFields(log[i].file) \cap ScalarFields(log[Len(log)].file)

\* The file read at j went to the paths parser and decodes
PathsRead(j) ==
    /\ log[j].invoked
    /\ log[j].file.c.rktKind = "paths"
    /\ log[j].file.c.json = "ok"

\* The accumulator the file read at j went to
PathsAccumulator(j) ==
    accs[log[j].file.tree]["pathsV1"][log[j].file.root + 1].Paths

\* C23: a paths file whose data or stage1-images value is a relative path
\* is refused and no Config is returned; a paths file with absolute values
\* that redeclares nothing is accepted and its values are in the
\* accumulator of its root index as written.
C23_RelativePathRefused ==
    \A j \in DOMAIN log :
        PathsRead(j) =>
            /\ ~AbsolutePaths(log[j].file.c)
                 => /\ j = Len(log)
                    /\ log[j].err # ""
                    /\ pc = "failed"
                    /\ cfg = NoConfig
            /\ (/\ AbsolutePaths(log[j].file.c)
                /\ \A i \in DOMAIN log :
                     SameAccumulator(i, j)
                        => ScalarFields(log[i].file) \cap ScalarFields(log[j].file) = {})
                 => /\ log[j].err = ""
                    /\ log[j].file.c.data # <<>>
                         => PathsAccumulator(j).DataDir = log[j].file.c.data
                    /\ log[j].file.c.stage1Images # <<>>
                         => PathsAccumulator(j).Stage1ImagesDir = log[j].file.c.stage1Images

\* C23 witness: the resolution failed at a paths file with an absolute data
\* directory and a relative stage1 images directory.
C23_Witness ==
    /\ pc = "failed"
    /\ cfg = NoConfig
    /\ PathsRead(Len(log))
    /\ IsAbs(log[Len(log)].file.c.data)
    /\ log[Len(log)].file.c.stage1Images = RelA
    /\ err = "stage1 images directory must be an absolute path"

----------------------------------------------------------------------------
(* pkg/config: Directory, its registrations and its walk *)

\* Directory.getParser on the registered parsers reg
lookupParser(reg, kind, version) ==
    IF kind \notin DOMAIN reg
    THEN [err |-> "no parser available for configuration of kind", parser |-> Nil]
    ELSE IF version \notin DOMAIN reg[kind]
    THEN [err |-> "no parser available for configuration of kind and version",
          parser |-> Nil]
    ELSE [err |-> "", parser |-> reg[kind][version]]

\* A variant that registers over an existing pair
RegisterParserOverwrite(reg, kind, version, parser) ==
    IF kind = "" THEN [err |-> "empty kind string", reg |-> reg]
    ELSE IF version = "" THEN [err |-> "empty version string", reg |-> reg]
    ELSE IF parser = Nil THEN [err |-> "trying to register a nil parser", reg |-> reg]
    ELSE [err |-> "",
          reg |-> MapPut(reg, kind,
                         MapPut(IF kind \in DOMAIN reg THEN reg[kind] ELSE EmptyMap,
                                version, parser))]

\* A variant that takes a kind to be registered once, whatever the version
RegisterParserPerKind(reg, kind, version, parser) ==
    IF kind = "" THEN [err |-> "empty kind string", reg |-> reg]
    ELSE IF version = "" THEN [err |-> "empty version string", reg |-> reg]
    ELSE IF parser = Nil THEN [err |-> "trying to register a nil parser", reg |-> reg]
    ELSE IF kind \in DOMAIN reg
    THEN [err |-> "parser already exists", reg |-> reg]
    ELSE [err |-> "", reg |-> MapPut(reg, kind, MapPut(EmptyMap, version, parser))]

\* Directory.RegisterParser
RegisterParser(reg, kind, version, parser) ==
    IF kind = "" THEN [err |-> "empty kind string", reg |-> reg]
    ELSE IF version = "" THEN [err |-> "empty version string", reg |-> reg]
    ELSE IF parser = Nil THEN [err |-> "trying to register a nil parser", reg |-> reg]
    ELSE IF lookupParser(reg, kind, version).err = ""
    THEN [err |-> "parser already exists", reg |-> reg]
    ELSE [err |-> "",
          reg |-> MapPut(reg, kind,
                         MapPut(IF kind \in DOMAIN reg THEN reg[kind] ELSE EmptyMap,
                                version, parser))]

\* Directory.RegisterParsers: stops at the first failure
RECURSIVE RegisterParsers(_, _)
RegisterParsers(reg, setups) ==
    IF setups = <<>> THEN [err |-> "", reg |-> reg]
    ELSE LET r == RegisterParser(reg, Head(setups).Kind, Head(setups).Version,
                                 Head(setups).Parser)
         IN IF r.err # "" THEN r ELSE RegisterParsers(r.reg, Tail(setups))

\* toSet
toSet(a) == Range(a)

\* toArray followed by sort.Strings: the elements of the set in ascending
\* order (kinds are single tokens of Alphabet)
sortStrings(S) ==
    CHOOSE a \in [1 .. Cardinality(S) -> S] :
        /\ Range(a) = S
        /\ \A i, j \in DOMAIN a : i < j => Ord(a[i]) < Ord(a[j])

\* A variant in which a registration replaces the kinds of the subdirectory
RegisterSubdirectoryReplace(subs, dir, kinds) ==
    IF dir = "" THEN [err |-> "trying to register empty config subdirectory", subs |-> subs]
    ELSE IF kinds = <<>>
    THEN [err |-> "kinds array cannot be empty", subs |-> subs]
    ELSE [err |-> "", subs |-> MapPut(subs, dir, sortStrings(toSet(kinds)))]

\* Directory.RegisterSubdirectory: the kinds are merged with those the
\* subdirectory already has
RegisterSubdirectory(subs, dir, kinds) ==
    IF dir = "" THEN [err |-> "trying to register empty config subdirectory", subs |-> subs]
    ELSE IF kinds = <<>>
    THEN [err |-> "kinds array cannot be empty", subs |-> subs]
    ELSE [err |-> "",
          subs |-> MapPut(subs, dir,
                          sortStrings(toSet((IF dir \in DOMAIN subs THEN subs[dir]
                                             ELSE <<>>) \o kinds)))]

\* Directory.RegisterSubdirectories: stops at the first failure
RECURSIVE RegisterSubdirectories(_, _)
RegisterSubdirectories(subs, setups) ==
    IF setups = <<>> THEN [err |-> "", subs |-> subs]
    ELSE LET r == RegisterSubdirectory(subs, Head(setups).Subdir, Head(setups).Kinds)
         IN IF r.err # "" THEN r ELSE RegisterSubdirectories(r.subs, Tail(setups))

\* filepath.Join of path elements: the empty ones are dropped
Join(elems) == SelectSeq(elems, LAMBDA e : e # "")

\* The toplevel directory passed to WalkDirectories at position i
TopDir(i) == "/top" \o ToString(i)

\* A variant that keeps an empty basename as a path element
configDirKeepEmpty(i) == << TopDir(i), directory >>

\* WalkDirectories: configDir := filepath.Join(topDir, d.directory)
configDir(i) == Join(<< TopDir(i), directory >>)

\* The directory an entry of the snapshot lies in
EntryDir(f) == Join(<< TopDir(f.root), f.tree, f.subdir >>)

\* A variant that skips whatever is not a directory it can read
validDirLenient(st) == [valid |-> st = "dir", err |-> ""]

\* validDir, on what os.Stat reports of the path: "dir", "missing", "file"
\* (exists, not a directory) or "noperm" (permission denied)
validDir(st) ==
    IF st = "missing" THEN [valid |-> FALSE, err |-> ""]
    ELSE IF st = "noperm" THEN [valid |-> FALSE, err |-> "permission denied"]
    ELSE IF st = "file" THEN [valid |-> FALSE, err |-> "expected to be a directory"]
    ELSE [valid |-> TRUE, err |-> ""]

\* A variant that takes whatever has the extension, and goes below directories
readAnyEntry(f) ==
    [valid |-> f.mode # "dir" /\ Ext(f.fname) = ".json", err |-> ""]

\* Directory.validConfigFile with rktJSON.Extension, on an entry filepath.Walk
\* hands over: a directory is skipped with filepath.SkipDir
readableConfigFile(f) ==
    IF f.mode = "dir" THEN [valid |-> FALSE, err |-> "SkipDir"]
    ELSE IF f.mode = "regular" THEN [valid |-> Ext(f.fname) = ".json", err |-> ""]
    ELSE [valid |-> FALSE, err |-> ""]

\* What filepath.Walk visits below a directory entry when the walk function
\* did not return filepath.SkipDir for it: the file the directory holds
below(f, v) ==
    IF f.mode = "dir" /\ v.err # "SkipDir"
    THEN { File(f.root, f.tree, f.subdir, NameA, "regular", f.c) }
    ELSE {}

NoParse == [err |-> "", invoked |-> FALSE, parser |-> Nil]

\* A variant that dispatches on kind and version alone
dispatchAnyKind(reg, kinds, c) ==
    LET kv == GetKindAndVersion(c) IN
    IF kv.err # ""
    THEN [NoParse EXCEPT !.err = "failed to get configuration kind and version"]
    ELSE LET gp == lookupParser(reg, kv.kind, kv.version) IN
         IF gp.err # "" THEN [NoParse EXCEPT !.err = gp.err]
         ELSE [err |-> "", invoked |-> TRUE, parser |-> gp.parser]

\* A variant that falls back to another version of the kind
dispatchAnyVersion(reg, kinds, c) ==
    LET kv == GetKindAndVersion(c) IN
    IF kv.err # ""
    THEN [NoParse EXCEPT !.err = "failed to get configuration kind and version"]
    ELSE IF kv.kind \notin kinds
    THEN [NoParse EXCEPT !.err = "the configuration directory expects other kinds"]
    ELSE IF kv.kind \notin DOMAIN reg
    THEN [NoParse EXCEPT !.err = "no parser available for configuration of kind"]
    ELSE LET v == IF kv.version \in DOMAIN reg[kv.kind] THEN kv.version
                  ELSE CHOOSE w \in DOMAIN reg[kv.kind] : TRUE
         IN [err |-> "", invoked |-> TRUE, parser |-> reg[kv.kind][v]]

\* subdirectory.parseConfigFile with registered parsers that accept every
\* file (testParser.Parse): the checks up to the call of Parser.Parse
dispatch(reg, kinds, c) ==
    LET kv == GetKindAndVersion(c) IN
    IF kv.err # ""
    THEN [NoParse EXCEPT !.err = "failed to get configuration kind and version"]
    ELSE IF kv.kind \notin kinds
    THEN [NoParse EXCEPT !.err = "the configuration directory expects other kinds"]
    ELSE LET gp == lookupParser(reg, kv.kind, kv.version) IN
         IF gp.err # "" THEN [NoParse EXCEPT !.err = gp.err]
         ELSE [err |-> "", invoked |-> TRUE, parser |-> gp.parser]

NoPathIndex == [nil |-> TRUE]
NoFile == [nil |-> TRUE]

\* Directory.WalkDirectories: the next toplevel directory (walkConfigDirectory)
DirEnterRoot ==
    /\ pc = "dirWalk"
    /\ todo = {}
    /\ pending = {}
    /\ idx < NRoots
    /\ LET v == validDir(stat[configDir(idx)]) IN
        /\ log' = Append(log, [event |-> "stat", path |-> configDir(idx),
                               file |-> NoFile, invoked |-> FALSE, err |-> v.err,
                               parser |-> Nil, pi |-> NoPathIndex])
        /\ IF v.err # ""
           THEN /\ pc' = "dirFailed"
                /\ err' = v.err
                /\ UNCHANGED <<idx, pending>>
           ELSE /\ idx' = idx + 1
                /\ pending' = IF v.valid THEN DOMAIN dirSubdirs ELSE {}
                /\ UNCHANGED <<pc, err>>
    /\ UNCHANGED <<fs, todo, curSub>>
    /\ UNCHANGED <<directory, dirParsers, dirSubdirs, stat, regLog>>
    /\ UNCHANGED <<cfgVars, netVars, pluginVars>>

\* Directory.readConfigDir: the next registered subdirectory, in the order
\* the range over the map yields
DirEnterSubdir ==
    /\ pc = "dirWalk"
    /\ todo = {}
    /\ \E csd \in pending :
        LET subdir == Join(Append(configDir(idx - 1), csd))
            v == validDir(stat[subdir])
        IN
        /\ log' = Append(log, [event |-> "stat", path |-> subdir,
                               file |-> NoFile, invoked |-> FALSE, err |-> v.err,
                               parser |-> Nil, pi |-> NoPathIndex])
        /\ pending' = pending \ {csd}
        /\ IF v.err # ""
           THEN /\ pc' = "dirFailed"
                /\ err' = v.err
                /\ UNCHANGED <<todo, curSub>>
           ELSE /\ todo' = IF v.valid THEN { f \in fs : EntryDir(f) = subdir } ELSE {}
                /\ curSub' = csd
                /\ UNCHANGED <<pc, err>>
    /\ UNCHANGED <<fs, idx>>
    /\ UNCHANGED <<directory, dirParsers, dirSubdirs, stat, regLog>>
    /\ UNCHANGED <<cfgVars, netVars, pluginVars>>

\* The walk function of getConfigWalker on the next entry of the
\* subdirectory: subdirectory.readFile
DirReadFile ==
    /\ pc = "dirWalk"
    /\ \E f \in todo :
        /\ nextFile(f)
        /\ LET v == readableConfigFile(f)
               r == IF v.valid THEN dispatch(dirParsers, Range(dirSubdirs[curSub]), f.c)
                    ELSE NoParse
               pi == [Index |-> idx - 1, Path |-> configDir(idx - 1),
                      Subdirectory |-> curSub, Filename |-> f.fname]
           IN
            /\ log' = Append(log, [event |-> "read", path |-> Append(EntryDir(f), f.fname),
                                   file |-> f, invoked |-> r.invoked, err |-> r.err,
                                   parser |-> r.parser,
                                   pi |-> IF r.invoked THEN pi ELSE NoPathIndex])
            /\ todo' = (todo \ {f}) \cup below(f, v)
            /\ IF r.err # ""
               THEN pc' = "dirFailed" /\ err' = r.err
               ELSE UNCHANGED <<pc, err>>
    /\ UNCHANGED <<fs, idx, curSub>>
    /\ UNCHANGED dirVars
    /\ UNCHANGED <<cfgVars, netVars, pluginVars>>

\* WalkDirectories returns nil
DirDone ==
    /\ pc = "dirWalk"
    /\ todo = {}
    /\ pending = {}
    /\ idx = NRoots
    /\ pc' = "dirDone"
    /\ UNCHANGED <<fs, idx, todo, curSub, err, log>>
    /\ UNCHANGED dirVars
    /\ UNCHANGED <<cfgVars, netVars, pluginVars>>

DirNext ==
    \/ DirEnterRoot
    \/ DirEnterSubdir
    \/ DirReadFile
    \/ DirDone

----------------------------------------------------------------------------
(* The directories walked: a Directory of the rktJSON type set up as the     *)
(* tests of pkg/config set theirs up, over a snapshot of entries            *)

\* Parsers of kind a (version v1) and of kind b (versions v1 and v2)
DirParserSetups ==
    << [Kind |-> "a", Version |-> "v1", Parser |-> "pa1"],
       [Kind |-> "b", Version |-> "v1", Parser |-> "pb1"],
       [Kind |-> "b", Version |-> "v2", Parser |-> "pb2"] >>

\* s1 takes kind a; s2 takes kind b and kind c, which has no parser
DirSubdirSetups ==
    << [Subdir |-> "s1", Kinds |-> << "a" >>],
       [Subdir |-> "s2", Kinds |-> << "b" >>],
       [Subdir |-> "s2", Kinds |-> << "c", "b" >>] >>

\* A file with the two-field header and nothing else
KindC(kind, version) == [Blank EXCEPT !.rktKind = kind, !.rktVersion = version]

LinkName == << "1", ".json" >>
DirName == << "2", ".json" >>

\* The entries a toplevel directory may hold under the basename d.  An entry
\* of mode "dir" is a directory below the subdirectory, holding one file
\* a.json whose content is c; s3 is not registered.
DirEntries(d, r) ==
    { File(r, d, "s1", NameA, "regular", c) :
        c \in { KindC("a", "v1"), KindC("a", "v2"), KindC("b", "v1"),
                KindC("c", "v1"), KindC("", "v1"),
                [KindC("a", "v1") EXCEPT !.json = "bad"] } }
    \cup { File(r, d, "s1", NameB, "regular", KindC("a", "v1")),
           File(r, d, "s1", NameC, "regular", KindC("a", "v1")),
           File(r, d, "s1", NameC, "regular", KindC("b", "v1")),
           File(r, d, "s1", LinkName, "symlink", KindC("b", "v1")),
           File(r, d, "s1", DirName, "dir", KindC("b", "v1")),
           File(r, d, "s2", NameA, "regular", KindC("b", "v2")),
           File(r, d, "s2", NameA, "regular", KindC("c", "v1")),
           File(r, d, "s2", NameA, "regular", KindC("b", "v3")),
           File(r, d, "s3", NameA, "regular", KindC("b", "v1")) }

\* The directories the walk may stat
ConfigDirs == { configDir(i) : i \in Roots }
SubdirsOf(S) == { Join(Append(configDir(i), csd)) : i \in Roots, csd \in S }

\* Every directory is there
AllThere(S) == [ p \in ConfigDirs \cup SubdirsOf(S) |-> "dir" ]

\* One directory is missing, is a file, or cannot be stat'ed
OneOdd(S) ==
    { [AllThere(S) EXCEPT ![p] = st] :
        p \in ConfigDirs \cup SubdirsOf(S), st \in {"missing", "file", "noperm"} }

\* An entry lies in directories that are there
Placed(f) ==
    /\ stat[configDir(f.root)] = "dir"
    /\ EntryDir(f) \in DOMAIN stat => stat[EntryDir(f)] = "dir"

\* NewDirectory, RegisterParsers and RegisterSubdirectories, then a snapshot
\* of the file system
DirectoryInit(entries, odd) ==
    /\ directory \in {"", "cfg"}
    /\ dirParsers = RegisterParsers(EmptyMap, DirParserSetups).reg
    /\ dirSubdirs = RegisterSubdirectories(EmptyMap, DirSubdirSetups).subs
    /\ stat \in {AllThere(DOMAIN dirSubdirs)}
                \cup (IF odd THEN OneOdd(DOMAIN dirSubdirs) ELSE {})
    /\ fs \in { S \in SubsetsUpTo(entries, MaxFiles) :
                  Snapshot(S) /\ \A f \in S : Placed(f) }
    /\ regLog = <<>>
    /\ pending = {}
    /\ pc = "dirWalk"
    /\ idx = 0
    /\ todo = {}
    /\ curSub = ""
    /\ err = ""
    /\ log = <<>>
    /\ accs = [t \in Trees |-> [p \in Parsers |-> <<>>]]
    /\ propagators = "none"
    /\ cfg = NoConfig
    /\ schema = "none"
    /\ nets = <<>>
    /\ infos = <<>>
    /\ netConfigs = <<>>
    /\ netCfg = NoConfig
    /\ netResults = {}
    /\ pluginConfigs = <<>>
    /\ propOpts = <<>>
    /\ pluginCfg = NoConfig

DirUniverse == UNION { DirEntries(directory, r) : r \in Roots }

DirInit == DirectoryInit(DirUniverse, FALSE)

DirSpec == DirInit /\ [][DirNext]_vars

\* One file per registered subdirectory
StatEntries(d, r) ==
    { File(r, d, "s1", NameA, "regular", KindC("a", "v1")),
      File(r, d, "s2", NameA, "regular", KindC("b", "v1")) }

StatUniverse == UNION { StatEntries(directory, r) : r \in Roots }

StatInit == DirectoryInit(StatUniverse, TRUE)

StatSpec == StatInit /\ [][DirNext]_vars

----------------------------------------------------------------------------
(* The walk of a Directory, against the snapshot *)

StatEvent(j) == log[j].event = "stat"
ReadEvent(j) == log[j].event = "read"
Stated(p) == \E j \in DOMAIN log : StatEvent(j) /\ log[j].path = p

\* The entries of registered subdirectories a complete walk comes by
Walked ==
    { f \in fs : /\ f.tree = directory
                 /\ f.subdir \in DOMAIN dirSubdirs
                 /\ stat[configDir(f.root)] = "dir"
                 /\ stat[EntryDir(f)] = "dir" }

\* C24: a <root>/<cdb> directory or a registered subdirectory that does
\* not exist is passed over without an error and the walk goes on to the
\* next ones, to its end; one that is not a directory or cannot be stat'ed
\* ends the walk with an error at once.
C24_MissingSkippedOthersFail ==
    /\ \A j \in DOMAIN log :
         StatEvent(j) =>
            /\ stat[log[j].path] \in {"dir", "missing"} => log[j].err = ""
            /\ stat[log[j].path] \in {"file", "noperm"}
                 => /\ log[j].err # ""
                    /\ j = Len(log)
                    /\ pc = "dirFailed"
    /\ pc = "dirDone" =>
         /\ \A p \in DOMAIN stat : stat[p] \in {"dir", "missing"}
         /\ \A i \in Roots :
              /\ Stated(configDir(i))
              /\ stat[configDir(i)] = "dir"
                   => \A csd \in DOMAIN dirSubdirs :
                        Stated(Join(Append(configDir(i), csd)))
         /\ \A f \in Walked :
              \E j \in DOMAIN log : ReadEvent(j) /\ log[j].file = f /\ log[j].invoked

\* C24 witness: the walk ended well although the configuration directory
\* of the first toplevel directory does not exist, and a file of the second
\* one went to its parser.
C24_Witness ==
    /\ pc = "dirDone"
    /\ stat[configDir(0)] = "missing"
    /\ \E j \in DOMAIN log :
        ReadEvent(j) /\ log[j].invoked /\ log[j].file.root = 1

\* A regular file with the extension of the type, directly inside a
\* registered subdirectory of the walked directory
Candidate(f) ==
    /\ f \in fs
    /\ f.tree = directory
    /\ f.subdir \in DOMAIN dirSubdirs
    /\ f.mode = "regular"
    /\ Ext(f.fname) = ".json"

\* C25: only regular files lying directly in a registered subdirectory and
\* carrying the extension of the type go to the checks and the parsers;
\* files with another extension, symbolic links, directories and what they
\* hold, and the entries of unregistered subdirectories reach no parser and
\* cause no error, and every candidate of a walk that ends well was
\* dispatched.
C25_OnlyCandidatesDispatched ==
    /\ \A j \in DOMAIN log :
         ReadEvent(j) =>
            /\ log[j].file \in fs
            /\ log[j].file.subdir \in DOMAIN dirSubdirs
            /\ (log[j].invoked \/ log[j].err # "") => Candidate(log[j].file)
    /\ pc = "dirFailed" => ReadEvent(Len(log)) /\ Candidate(log[Len(log)].file)
    /\ pc = "dirDone" =>
         \A f \in fs :
            Candidate(f) <=>
                \E j \in DOMAIN log : ReadEvent(j) /\ log[j].file = f /\ log[j].invoked

\* C25 witness: a walk ended well over a snapshot with a candidate, which
\* went to its parser, and an entry that is none: a symbolic link, a
\* directory, a file with another extension or one of an unregistered
\* subdirectory.
C25_Witness ==
    /\ pc = "dirDone"
    /\ \E j \in DOMAIN log : ReadEvent(j) /\ log[j].invoked
    /\ \E f \in fs :
        /\ ~Candidate(f)
        /\ f.c = KindC("b", "v1")
        /\ \/ f.mode \in {"symlink", "dir"}
           \/ f.subdir = "s3"
           \/ Ext(f.fname) = ".txt"

\* The file has no usable header: it does not decode, or its kind or its
\* version is missing
NoHeader(c) == c.json = "bad" \/ c.rktKind = "" \/ c.rktVersion = ""

\* The kinds the subdirectory of the file takes
AllowedKinds(f) == Range(dirSubdirs[f.subdir])

Registered(kind, version) ==
    kind \in DOMAIN dirParsers /\ version \in DOMAIN dirParsers[kind]

MembershipError == "the configuration directory expects other kinds"

\* C26: a candidate file is checked for its header first, then for its
\* kind being one its subdirectory takes, then for a parser, and only then
\* parsed: a file of a kind its subdirectory does not take gets the
\* membership error, with or without a parser registered for its kind and
\* version, and no parser is invoked on it.
C26_MembershipBeforeParser ==
    \A j \in DOMAIN log :
        (ReadEvent(j) /\ Candidate(log[j].file)) =>
            LET f == log[j].file IN
            IF NoHeader(f.c)
            THEN /\ log[j].err = "failed to get configuration kind and version"
                 /\ ~log[j].invoked
            ELSE IF f.c.rktKind \notin AllowedKinds(f)
            THEN /\ log[j].err = MembershipError
                 /\ ~log[j].invoked
                 /\ log[j].parser = Nil
                 /\ pc = "dirFailed"
            ELSE IF ~Registered(f.c.rktKind, f.c.rktVersion)
            THEN log[j].err # "" /\ log[j].err # MembershipError /\ ~log[j].invoked
            ELSE log[j].err = "" /\ log[j].invoked

\* C26 witness: the walk failed with the membership error at a file whose
\* kind and version have a registered parser.
C26_Witness ==
    /\ pc = "dirFailed"
    /\ err = MembershipError
    /\ ReadEvent(Len(log))
    /\ Registered(log[Len(log)].file.c.rktKind, log[Len(log)].file.c.rktVersion)
    /\ ~log[Len(log)].invoked

\* A candidate of a kind its subdirectory takes and that has parsers, but
\* none of the version of the file
UnregisteredVersion(f) ==
    /\ ~NoHeader(f.c)
    /\ f.c.rktKind \in AllowedKinds(f)
    /\ f.c.rktKind \in DOMAIN dirParsers
    /\ f.c.rktVersion \notin DOMAIN dirParsers[f.c.rktKind]

\* C27: a file of a registered kind and an unregistered version ends the
\* walk with the error of the missing parser; no walk ends well over such
\* a candidate, and a parser is only ever invoked on files of exactly the
\* kind and version it is registered for.
C27_UnregisteredVersionFails ==
    /\ \A j \in DOMAIN log :
         (ReadEvent(j) /\ Candidate(log[j].file)) =>
            /\ UnregisteredVersion(log[j].file)
                 => /\ log[j].err = "no parser available for configuration of kind and version"
                    /\ ~log[j].invoked
                    /\ j = Len(log)
                    /\ pc = "dirFailed"
            /\ log[j].invoked
                 => /\ Registered(log[j].file.c.rktKind, log[j].file.c.rktVersion)
                    /\ log[j].parser =
                         dirParsers[log[j].file.c.rktKind][log[j].file.c.rktVersion]
    /\ pc = "dirDone" => \A f \in fs : Candidate(f) => ~UnregisteredVersion(f)

\* C27 witness: the walk failed at a file of kind b in a version that is
\* not registered, two other versions of the kind being registered.
C27_Witness ==
    /\ pc = "dirFailed"
    /\ err = "no parser available for configuration of kind and version"
    /\ ReadEvent(Len(log))
    /\ UnregisteredVersion(log[Len(log)].file)
    /\ Cardinality(DOMAIN dirParsers[log[Len(log)].file.c.rktKind]) = 2

\* <root>/<cdb> of the toplevel directory at position i, the root itself
\* when the basename is empty
ExpectedPath(i) ==
    IF directory = "" THEN << TopDir(i) >> ELSE << TopDir(i), directory >>

Dispatched(j) == ReadEvent(j) /\ log[j].invoked

\* C28: every parser invocation gets a PathIndex with the position of the
\* file's toplevel directory in the list walked as Index, also after
\* toplevel directories whose configuration directory is missing, with
\* <root>/<cdb> as Path (the root itself for the empty basename) and with
\* the subdirectory and the name of the file; the files of one toplevel
\* directory get the same Index and Path, and the files of a toplevel
\* directory are dispatched before those of the next ones.
C28_PathIndexOfRoot ==
    \A j \in DOMAIN log :
        Dispatched(j) =>
            /\ log[j].pi.Index = log[j].file.root
            /\ log[j].pi.Path = ExpectedPath(log[j].file.root)
            /\ log[j].pi.Subdirectory = log[j].file.subdir
            /\ log[j].pi.Filename = log[j].file.fname
            /\ \A i \in 1 .. (j - 1) :
                 Dispatched(i) =>
                    /\ log[i].file.root <= log[j].file.root
                    /\ log[i].file.root = log[j].file.root
                         => /\ log[i].pi.Index = log[j].pi.Index
                            /\ log[i].pi.Path = log[j].pi.Path

\* C28 witness: with the empty basename and the first toplevel directory
\* missing, a file of the second one went to its parser with Index 1 and
\* the toplevel directory as Path.
C28_Witness ==
    /\ directory = ""
    /\ stat[configDir(0)] = "missing"
    /\ \E j \in DOMAIN log :
        /\ Dispatched(j)
        /\ log[j].pi.Index = 1
        /\ log[j].pi.Path = << TopDir(1) >>

----------------------------------------------------------------------------
(* Registrations on a new Directory, in any order *)

RegKinds == {"", "a", "b"}
RegVersions == {"", "v1", "v2"}
RegParsers == {Nil, "p1", "p2"}

\* NewDirectory
RegInit ==
    /\ directory = "cfg"
    /\ dirParsers = EmptyMap
    /\ dirSubdirs = EmptyMap
    /\ stat = EmptyMap
    /\ regLog = <<>>
    /\ pending = {}
    /\ fs = {}
    /\ pc = "register"
    /\ idx = 0
    /\ todo = {}
    /\ curSub = ""
    /\ err = ""
    /\ log = <<>>
    /\ accs = [t \in Trees |-> [p \in Parsers |-> <<>>]]
    /\ propagators = "none"
    /\ cfg = NoConfig
    /\ schema = "none"
    /\ nets = <<>>
    /\ infos = <<>>
    /\ netConfigs = <<>>
    /\ netCfg = NoConfig
    /\ netResults = {}
    /\ pluginConfigs = <<>>
    /\ propOpts = <<>>
    /\ pluginCfg = NoConfig

\* A call of Directory.RegisterParser
RegisterParserCall ==
    /\ pc = "register"
    /\ Len(regLog) < MaxRegs
    /\ \E kind \in RegKinds, version \in RegVersions, parser \in RegParsers :
        LET r == RegisterParser(dirParsers, kind, version, parser) IN
        /\ dirParsers' = r.reg
        /\ regLog' = Append(regLog, [kind |-> kind, version |-> version,
                                     parser |-> parser, err |-> r.err])
    /\ UNCHANGED <<directory, dirSubdirs, stat, pending>>
    /\ UNCHANGED <<walkVars, cfgVars, netVars, pluginVars>>

RegNext == RegisterParserCall

RegSpec == RegInit /\ [][RegNext]_vars

\* The call at i registered the pair the call at j names
RegisteredBefore(i, j) ==
    /\ i < j
    /\ regLog[i].err = ""
    /\ regLog[i].kind = regLog[j].kind
    /\ regLog[i].version = regLog[j].version

\* C29: a call of RegisterParser fails exactly when its kind is empty, its
\* version is empty, its parser is nil, or an earlier call registered the
\* same kind and version; so versions of one kind and kinds of one version
\* are registered side by side.
C29_RegisterParserFailures ==
    \A j \in DOMAIN regLog :
        regLog[j].err # "" <=>
            \/ regLog[j].kind = ""
            \/ regLog[j].version = ""
            \/ regLog[j].parser = Nil
            \/ \E i \in DOMAIN regLog : RegisteredBefore(i, j)

\* C29 witness: two versions of one kind and the same version of another
\* kind are registered.
C29_Witness ==
    /\ \A j \in DOMAIN regLog : regLog[j].err = ""
    /\ "a" \in DOMAIN dirParsers /\ DOMAIN dirParsers["a"] = {"v1", "v2"}
    /\ "b" \in DOMAIN dirParsers /\ DOMAIN dirParsers["b"] = {"v1"}

\* The calls that registered their parser
Successful == { j \in DOMAIN regLog : regLog[j].err = "" }

\* C30: the registry, and with it the parser found for any kind and
\* version, is given by the set of the pairs registered, whatever the order
\* of the calls: a pair has a parser exactly when some call registered it,
\* and it is that call's parser; a call naming a pair registered before it
\* fails wherever in the sequence it comes, and leaves the registry alone.
C30_RegistrationOrderFree ==
    /\ \A kind \in RegKinds, version \in RegVersions :
         LET S == { j \in Successful : regLog[j].kind = kind
                                        /\ regLog[j].version = version }
             found == lookupParser(dirParsers, kind, version)
         IN /\ Cardinality(S) <= 1
            /\ S = {} => found.err # ""
            /\ \A j \in S : found.err = "" /\ found.parser = regLog[j].parser
    /\ \A i, j \in DOMAIN regLog : RegisteredBefore(i, j) => regLog[j].err # ""

\* C30 witness: kind b was registered before kind a, and a third call that
\* names the first pair again, with another parser, failed.
C30_Witness ==
    /\ Len(regLog) = 3
    /\ regLog[1].err = "" /\ regLog[1].kind = "b"
    /\ regLog[2].err = "" /\ regLog[2].kind = "a"
    /\ RegisteredBefore(1, 3)
    /\ regLog[3].parser \notin {Nil, regLog[1].parser}
    /\ regLog[3].err # ""
    /\ dirParsers["b"][regLog[1].version] = regLog[1].parser

(***************************************************************************)
(* Subdirectory registration (pkg/config/directory.go,                     *)
(* TestSubdirectoryRegistration): any sequence of RegisterSubdirectory     *)
(* calls on one Directory.                                                 *)
(***************************************************************************)

SubdirNames == {"", "d1", "d2"}

SubdirKinds == {<<>>, <<"a">>, <<"b">>, <<"b", "a">>, <<"a", "a">>, <<"c", "a">>}

SubdirInit ==
    /\ RegInit
    /\ pc = "register"

\* One call of d.RegisterSubdirectory(dir, kinds)
RegisterSubdirectoryCall ==
    /\ pc = "register"
    /\ Len(regLog) < MaxRegs
    /\ \E dir \in SubdirNames, kinds \in SubdirKinds :
         LET r == RegisterSubdirectory(dirSubdirs, dir, kinds) IN
           /\ dirSubdirs' = r.subs
           /\ regLog' = Append(regLog, [dir |-> dir, kinds |-> kinds, err |-> r.err])
    /\ UNCHANGED <<walkVars, cfgVars, netVars, pluginVars,
                   directory, dirParsers, stat, pending>>

SubdirNext == RegisterSubdirectoryCall

SubdirSpec == SubdirInit /\ [][SubdirNext]_vars

\* The calls that registered something for dir
RegisteredFor(dir) == {j \in DOMAIN regLog : regLog[j].err = "" /\ regLog[j].dir = dir}

\* The kinds named by those calls
KindsFor(dir) == UNION {Range(regLog[j].kinds) : j \in RegisteredFor(dir)}

StrictlySorted(a) == \A i, j \in DOMAIN a : i < j => Ord(a[i]) < Ord(a[j])

\* C31: a RegisterSubdirectory call fails exactly when the subdirectory name
\* or the kinds list is empty, and after any sequence of calls each
\* registered subdirectory holds, sorted and without duplicates, the union of
\* the kinds of the successful calls naming it -- a function of the set of
\* calls, so neither their order nor their repetition matters.
C31_SubdirectoryKindsUnion ==
    pc = "register" =>
        /\ \A j \in DOMAIN regLog :
             /\ regLog[j].err # "" <=> (regLog[j].dir = "" \/ regLog[j].kinds = <<>>)
             /\ regLog[j].dir = "" =>
                  regLog[j].err = "trying to register empty config subdirectory"
        /\ DOMAIN dirSubdirs = {d \in SubdirNames : RegisteredFor(d) # {}}
        /\ \A d \in DOMAIN dirSubdirs :
             /\ StrictlySorted(dirSubdirs[d])
             /\ Range(dirSubdirs[d]) = KindsFor(d)

C31_Witness ==
    /\ pc = "register"
    /\ Len(regLog) = 3
    /\ \A j \in 1..3 : regLog[j].dir = "d1" /\ regLog[j].err = ""
    /\ regLog[1].kinds = <<"b", "a">>
    /\ regLog[2].kinds = <<"c", "a">>
    /\ regLog[3].kinds = <<"b", "a">>
    /\ dirSubdirs["d1"] = <<"a", "b", "c">>

(***************************************************************************)
(* Whole calls of GetConfigFrom (rkt/config/config.go,                     *)
(* networking/config/config.go) over lists of toplevel directories of one  *)
(* snapshot.  The snapshot has three toplevel directories; a call is made  *)
(* on the list of all three or on the list without the middle one, and the *)
(* outcomes of the calls are kept in log.  Files of the network            *)
(* configuration directory have tree "net".                                *)
(***************************************************************************)

MaxCalls == 2

RootA == 0
RootC == 1
RootB == 2

CallRoots == {RootA, RootC, RootB}

\* The dirs arguments of the calls
DirLists == { <<RootA, RootC, RootB>>, <<RootA, RootB>> }

\* The orders in which one toplevel directory's files can be read:
\* readConfigDir ranges over the subdirectory map in an unspecified order,
\* filepath.Walk reads each subdirectory to its end in lexical order
walkOrders(F) ==
    { o \in [1 .. Cardinality(F) -> F] :
        /\ Range(o) = F
        /\ \A i, j \in DOMAIN o :
             i < j /\ o[i].tree = o[j].tree /\ o[i].subdir = o[j].subdir =>
                /\ StrLess(o[i].fname, o[j].fname)
                /\ \A k \in i .. j : o[k].tree = o[i].tree /\ o[k].subdir = o[i].subdir }

\* The entries of toplevel directory d
EntriesOf(d) == { f \in fs : f.root = d }

\* The files of o, from position k on, that the directory of tree hands to
\* its parsers
RECURSIVE walked(_, _, _)
walked(o, tree, k) ==
    IF k > Len(o) THEN <<>>
    ELSE (IF /\ o[k].tree = tree
             /\ o[k].subdir \in DOMAIN configSubdirs
             /\ validConfigFile(o[k])
          THEN <<o[k]>> ELSE <<>>) \o walked(o, tree, k + 1)

\* filepath.Walk with subdirectory.readFile over the files o of the
\* toplevel directory with index i, from position k on; the first error
\* ends it.  (r ranges over a one-element set so that the outcome of one
\* file is computed once.)
RECURSIVE readFiles(_, _, _, _)
readFiles(acc, o, k, i) ==
    IF k > Len(o) THEN [err |-> "", acc |-> acc]
    ELSE CHOOSE w \in { IF r.err # "" THEN [err |-> r.err, acc |-> r.acc]
                          ELSE readFiles(r.acc, o, k + 1, i) :
                          r \in {parseConfigFile(acc, [o[k] EXCEPT !.root = i])} } : TRUE

\* Directory.WalkDirectories(dirs...) of the directory of tree, from
\* position k of dirs on; order[d + 1] is the order in which the entries of
\* the toplevel directory d are read
RECURSIVE WalkDirectories(_, _, _, _, _)
WalkDirectories(acc, tree, dirs, order, k) ==
    IF k > Len(dirs) THEN [err |-> "", acc |-> acc]
    ELSE CHOOSE w \in { IF r.err # "" THEN r
                          ELSE WalkDirectories(r.acc, tree, dirs, order, k + 1) :
                          r \in {readFiles(acc, walked(order[dirs[k] + 1], tree, 1),
                                           1, k - 1)} } : TRUE

\* A variant in which the parsers of the earlier call are used again
getConfigSetupShared == accs

\* getConfigSetup: new parsers, with no accumulator, for each call
getConfigSetup == [t \in Trees |-> [p \in Parsers |-> <<>>]]

\* rkt/config GetConfigFrom(dirs...): configSetup.walkDirectories, newConfig
\* and propagateChanges
GetConfigFrom(dirs, order) ==
    LET setup == getConfigSetup
        new == WalkDirectories(setup["new"], "new", dirs, order, 1)
        old == WalkDirectories(setup["old"], "old", dirs, order, 1)
    IN
    IF new.err # ""
    THEN [err |-> new.err, cfg |-> NoConfig, accs |-> [setup EXCEPT !["new"] = new.acc]]
    ELSE IF \E p \in Parsers : visited(new.acc[p])
    THEN [err |-> "", cfg |-> propagateChanges(new.acc),
          accs |-> [setup EXCEPT !["new"] = new.acc]]
    ELSE IF old.err # ""
    THEN [err |-> old.err, cfg |-> NoConfig,
          accs |-> [setup EXCEPT !["new"] = new.acc, !["old"] = old.acc]]
    ELSE [err |-> "", cfg |-> propagateChanges(old.acc),
          accs |-> [setup EXCEPT !["new"] = new.acc, !["old"] = old.acc]]

\* The paths files of o, from position k on, in the network configuration
\* directory
RECURSIVE pluginWalked(_, _)
pluginWalked(o, k) ==
    IF k > Len(o) THEN <<>>
    ELSE (IF /\ o[k].tree = "net"
             /\ o[k].subdir \in DOMAIN getPathsSetup.subdirs
             /\ o[k].mode = "regular"
             /\ Ext(o[k].fname) = getPathsSetup.extension
          THEN <<o[k]>> ELSE <<>>) \o pluginWalked(o, k + 1)

\* filepath.Walk with subdirectory.readFile over paths files
RECURSIVE pluginReadFiles(_, _, _, _, _)
pluginReadFiles(configs, opts, o, k, i) ==
    IF k > Len(o) THEN [err |-> "", configs |-> configs, opts |-> opts]
    ELSE CHOOSE w \in { IF r.err # ""
                          THEN [err |-> r.err, configs |-> r.configs, opts |-> r.opts]
                          ELSE pluginReadFiles(r.configs, r.opts, o, k + 1, i) :
                          r \in {pluginParseConfigFile(getPathsSetup, configs, opts,
                                                       [o[k] EXCEPT !.root = i])} } : TRUE

\* Directory.WalkDirectories(dirs...) of the network configuration directory
RECURSIVE pluginWalkDirectories(_, _, _, _, _)
pluginWalkDirectories(configs, opts, dirs, order, k) ==
    IF k > Len(dirs) THEN [err |-> "", configs |-> configs, opts |-> opts]
    ELSE CHOOSE w \in { IF r.err # "" THEN r
                          ELSE pluginWalkDirectories(r.configs, r.opts, dirs, order, k + 1) :
                          r \in {pluginReadFiles(configs, opts,
                                                 pluginWalked(order[dirs[k] + 1], 1),
                                                 1, k - 1)} } : TRUE

\* networking/config GetConfigFrom(dirs...), as far as the plugin
\* directories go: configSetup.run
pluginGetConfigFrom(dirs, order) ==
    LET w == pluginWalkDirectories(<<>>, <<>>, dirs, order, 1) IN
    IF w.err # ""
    THEN [err |-> w.err, cfg |-> NoConfig, configs |-> w.configs, opts |-> w.opts]
    ELSE [err |-> "",
          cfg |-> [PluginDirs |-> pluginPathsPropagate(NilDirs, w.configs, w.opts, 1)],
          configs |-> w.configs, opts |-> w.opts]

\* One call of rkt/config GetConfigFrom
GetConfigFromCall ==
    /\ pc = "calls"
    /\ Len(log) < MaxCalls
    /\ \E dirs \in DirLists :
       \E oA \in walkOrders(EntriesOf(RootA)),
          oC \in walkOrders(EntriesOf(RootC)),
          oB \in walkOrders(EntriesOf(RootB)) :
       \E r \in {GetConfigFrom(dirs, <<oA, oC, oB>>)} :
           /\ accs' = r.accs
           /\ cfg' = r.cfg
           /\ err' = r.err
           /\ log' = Append(log, [pkg |-> "rkt/config", dirs |-> dirs,
                                  cfg |-> r.cfg, err |-> r.err])
    /\ UNCHANGED <<fs, pc, idx, todo, curSub, propagators>>
    /\ UNCHANGED <<netVars, pluginVars, dirVars>>

\* One call of networking/config GetConfigFrom
PluginGetConfigFromCall ==
    /\ pc = "calls"
    /\ Len(log) < MaxCalls
    /\ \E dirs \in DirLists :
       \E oA \in walkOrders(EntriesOf(RootA)),
          oC \in walkOrders(EntriesOf(RootC)),
          oB \in walkOrders(EntriesOf(RootB)) :
       \E r \in {pluginGetConfigFrom(dirs, <<oA, oC, oB>>)} :
           /\ pluginConfigs' = r.configs
           /\ propOpts' = r.opts
           /\ pluginCfg' = r.cfg
           /\ err' = r.err
           /\ log' = Append(log, [pkg |-> "networking/config", dirs |-> dirs,
                                  cfg |-> r.cfg, err |-> r.err])
    /\ UNCHANGED <<fs, pc, idx, todo, curSub>>
    /\ UNCHANGED <<cfgVars, netVars, dirVars>>

SubdirOf(c) ==
    IF c.rktKind \in {"auth", "dockerAuth"} THEN "auth.d"
    ELSE IF c.rktKind = "paths" THEN "paths.d"
    ELSE "stage1.d"

\* What the first toplevel directory can hold
CallFilesA ==
    { File(RootA, "new", SubdirOf(c), NameA, "regular", c) :
        c \in { AuthC(<<"h1", "h2">>, "oauth", "", "", "t1"),
                PathsC(AbsB, AbsA),
                Stage1C("n2", "2.0", AbsB) } }
    \cup { File(RootA, "new", "auth.d", NameB, "regular",
                AuthC(<<"h1">>, "basic", "u1", "p1", "")) }
    \cup { File(RootA, "net", "paths.d", NameA, "regular", c) :
             c \in { PluginPathsC(FALSE, FALSE, TRUE, << PluginA >>),
                     PluginPathsC(TRUE, TRUE, TRUE, << PluginA, PluginB >>) } }

\* What the middle toplevel directory can hold: declarations the first one
\* can hold too, whole or in part, and one with another value
CallFilesC ==
    { File(RootC, "new", SubdirOf(c), NameA, "regular", c) :
        c \in { AuthC(<<"h1">>, "oauth", "", "", "t1"),
                AuthC(<<"h1">>, "basic", "u1", "p1", ""),
                DockerAuthC(<<"r1">>, "u1", "p1"),
                PathsC(AbsB, <<>>),
                Stage1C("n2", "2.0", <<>>) } }
    \cup { File(RootC, "old", "auth.d", NameA, "regular",
                AuthC(<<"h1">>, "basic", "u1", "p1", "")) }
    \cup { File(RootC, "net", "paths.d", NameA, "regular",
                PluginPathsC(FALSE, FALSE, TRUE, << PluginA >>)) }

\* What the last toplevel directory can hold
CallFilesB ==
    { File(RootB, "new", SubdirOf(c), NameA, "regular", c) :
        c \in { AuthC(<<"h1">>, "basic", "u1", "p1", ""),
                PathsC(AbsA, <<>>) } }
    \cup { File(RootB, "net", "paths.d", NameA, "regular", c) :
             c \in { PluginPathsC(FALSE, FALSE, TRUE, << PluginB >>),
                     PluginPathsC(TRUE, TRUE, TRUE, << PluginB >>),
                     PluginPathsC(TRUE, TRUE, FALSE, <<>>) } }

CallInit ==
    /\ \E A \in SubsetsUpTo(CallFilesA, MaxFiles),
          C \in SubsetsUpTo(CallFilesC, 1),
          B \in SubsetsUpTo(CallFilesB, 1) :
         /\ Snapshot(A)
         /\ fs = A \cup C \cup B
    /\ pc = "calls"
    /\ idx = 0
    /\ todo = {}
    /\ curSub = ""
    /\ err = ""
    /\ log = <<>>
    /\ accs = [t \in Trees |-> [p \in Parsers |-> <<>>]]
    /\ propagators = "none"
    /\ cfg = NoConfig
    /\ schema = "none"
    /\ nets = <<>>
    /\ infos = <<>>
    /\ netConfigs = <<>>
    /\ netCfg = NoConfig
    /\ netResults = {}
    /\ pluginConfigs = <<>>
    /\ propOpts = <<>>
    /\ pluginCfg = NoConfig
    /\ directory = ""
    /\ dirParsers = EmptyMap
    /\ dirSubdirs = EmptyMap
    /\ stat = EmptyMap
    /\ regLog = <<>>
    /\ pending = {}

CallNext ==
    \/ GetConfigFromCall
    \/ PluginGetConfigFromCall

CallSpec == CallInit /\ [][CallNext]_vars

----------------------------------------------------------------------------
(* A toplevel directory inserted between two others *)

\* What a file declares: the configuration directory, the kind, the key or
\* field and its value
Declarations(f) ==
    IF f.tree = "net"
    THEN { <<"net", "paths", "paths", f.c.paths>> : k \in {1} \cap {IF f.c.hasPaths THEN 1 ELSE 0} }
         \cup { <<"net", "paths", "discardPrevious", f.c.discard>> :
                  k \in {1} \cap {IF f.c.hasDiscard THEN 1 ELSE 0} }
    ELSE IF f.c.rktKind \in {"auth", "dockerAuth"}
    THEN { <<f.tree, f.c.rktKind, k, DeclaredValue(f)>> : k \in DeclaredKeys(f) }
    ELSE IF f.c.rktKind = "paths"
    THEN { <<f.tree, "paths", k, f.c[k]>> : k \in ScalarFields(f) }
    ELSE { <<f.tree, "stage1", k,
             IF k = "name" THEN <<f.c.name, f.c.version>> ELSE f.c.location>> :
             k \in ScalarFields(f) }

DeclaredIn(d) == UNION { Declarations(f) : f \in EntriesOf(d) }

\* The middle toplevel directory declares only what the first one declares,
\* with the same values
Subsumed == DeclaredIn(RootC) \subseteq DeclaredIn(RootA)

\* The calls at i and j of one package: i with the middle directory, j
\* without it
WithAndWithout(i, j, pkg) ==
    /\ i \in DOMAIN log /\ j \in DOMAIN log
    /\ log[i].pkg = pkg /\ log[j].pkg = pkg
    /\ log[i].dirs = <<RootA, RootC, RootB>>
    /\ log[j].dirs = <<RootA, RootB>>

SameOutcome(i, j) ==
    /\ log[i].err = "" <=> log[j].err = ""
    /\ log[i].cfg = log[j].cfg

\* The list of plugin directories the toplevel directory d declares
NetListOf(d) ==
    IF \E f \in EntriesOf(d) : f.tree = "net" /\ f.c.hasPaths
    THEN (CHOOSE f \in EntriesOf(d) : f.tree = "net" /\ f.c.hasPaths).c.paths
    ELSE <<>>

\* The toplevel directory d declares a list, so has an accumulator of its
\* own, and sets discardPrevious to true
NetDiscards(d) ==
    /\ \E f \in EntriesOf(d) : f.tree = "net" /\ f.c.hasPaths
    /\ \E f \in EntriesOf(d) : f.tree = "net" /\ f.c.hasDiscard /\ f.c.discard

AuthFormatFiles(r) ==
    { File(r, "new", "auth.d", NameA, "regular", c) :
        c \in { AuthC(<<"h1">>, "basic", "u1", "p1", ""),
                AuthC(<<"h1", "h2">>, "oauth", "", "", "t1"),
                AuthC(<<>>, "basic", "u1", "p1", ""),
                AuthC(<<"h1">>, "", "u1", "p1", ""),
                AuthC(<<"h1">>, "foo", "u1", "p1", "t1"),
                AuthC(<<"h1">>, "basic", "", "p1", ""),
                AuthC(<<"h1">>, "basic", "u1", "", ""),
                AuthC(<<"h1">>, "basic", "", "", "t1"),
                AuthC(<<"h1">>, "oauth", "u1", "p1", ""),
                DockerAuthC(<<"r1">>, "u1", "p1"),
                DockerAuthC(<<>>, "u1", "p1"),
                DockerAuthC(<<"r1">>, "", "p1"),
                DockerAuthC(<<"r1">>, "u1", "") } }
    \cup { File(r, "new", "auth.d", NameB, "regular", c) :
        c \in { AuthC(<<"h2">>, "oauth", "", "", "t2"),
                DockerAuthC(<<"r2">>, "u2", "p2") } }

AuthFormatUniverse == UNION { AuthFormatFiles(r) : r \in Roots }

AuthFormatInit ==
    /\ fs \in { S \in SubsetsUpTo(AuthFormatUniverse, MaxFiles) : Snapshot(S) }
    /\ pc = "walkNew"
    /\ idx = 0
    /\ todo = {}
    /\ curSub = ""
    /\ accs = [t \in Trees |-> [p \in Parsers |-> <<>>]]
    /\ propagators = "none"
    /\ cfg = NoConfig
    /\ err = ""
    /\ log = <<>>
    /\ schema = "none"
    /\ nets = <<>>
    /\ infos = <<>>
    /\ netConfigs = <<>>
    /\ netCfg = NoConfig
    /\ netResults = {}
    /\ pluginConfigs = <<>>
    /\ propOpts = <<>>
    /\ pluginCfg = NoConfig
    /\ directory = ""
    /\ dirParsers = EmptyMap
    /\ dirSubdirs = EmptyMap
    /\ stat = EmptyMap
    /\ regLog = <<>>
    /\ pending = {}

AuthFormatSpec == AuthFormatInit /\ [][Next]_vars

\* What an auth file has to carry
ValidAuth(c) ==
    /\ Len(c.domains) > 0
    /\ c.type \in {"basic", "oauth"}
    /\ c.type = "basic" => c.user # "" /\ c.password # ""
    /\ c.type = "oauth" => c.token # ""

\* What a dockerAuth file has to carry
ValidDockerAuth(c) ==
    /\ Len(c.registries) > 0
    /\ c.user # ""
    /\ c.password # ""

WellFormed(c) == IF c.rktKind = "auth" THEN ValidAuth(c) ELSE ValidDockerAuth(c)

\* The errors of the format checks
FormatErrors ==
    { "no domains specified", "no auth type specified", "unknown auth type",
      "user not specified", "password not specified",
      "no oauth bearer token specified", "no registries specified" }

\* C33: an auth file handed to its parser is refused by the format checks
\* exactly when its domains list is empty, its type is neither basic nor
\* oauth, or its credentials lack a user or password (basic) or a token
\* (oauth); a dockerAuth file exactly when its registries list is empty or
\* user or password is empty; the step that refuses a file leaves every
\* accumulator as it was and ends the resolution.
C33_AuthFormatChecks ==
    [][ Len(log') = Len(log) + 1 =>
          LET e == log'[Len(log')] IN
            e.invoked /\ e.file.c.rktKind \in {"auth", "dockerAuth"} =>
               /\ e.err \in FormatErrors <=> ~WellFormed(e.file.c)
               /\ e.err \in FormatErrors => accs' = accs /\ pc' = "failed"
      ]_vars

\* A file was accepted, then a file of the next toplevel directory without
\* an oauth token was refused: the parser has the accumulator of the first
\* file, holding what it declared, and none for the second
C33_Witness ==
    /\ pc = "failed"
    /\ Len(log) = 2
    /\ log[1].invoked /\ log[1].err = ""
    /\ log[2].invoked /\ log[2].err = "no oauth bearer token specified"
    /\ log[2].file.c.domains # <<>>
    /\ log[1].file.root < log[2].file.root
    /\ log[1].file.c.rktKind = "auth"
    /\ Len(accs["new"]["authV1"]) = log[1].file.root + 1
    /\ DOMAIN accs["new"]["authV1"][log[1].file.root + 1].AuthPerHost
         = Range(log[1].file.c.domains)

----------------------------------------------------------------------------
(* Calls of GetConfigFrom one after another *)

\* The calls at i and j are calls of one package on the same list, i first
Repeated(i, j) ==
    /\ i \in DOMAIN log /\ j \in DOMAIN log
    /\ i < j
    /\ log[i].pkg = log[j].pkg
    /\ log[i].dirs = log[j].dirs

----------------------------------------------------------------------------
(* The order of the visits inside a toplevel directory *)

\* Every order of the entries F, those of the walker among them
anyOrders(F) == { o \in [1 .. Cardinality(F) -> F] : Range(o) = F }

\* C35: a call of rkt/config GetConfigFrom (auth, dockerAuth, paths, stage1)
\* succeeds or fails, and returns the Config it returns, whatever the order
\* in which the subdirectories and files of each toplevel directory are
\* visited: the outcome under every such order is the outcome of the call
\* (of the latest one, the earlier ones having been the latest before).
C35_VisitOrderFree ==
    pc = "calls" =>
        \A k \in {Len(log)} \ {0} :
            log[k].pkg = "rkt/config" =>
                \A oA \in anyOrders(EntriesOf(RootA)),
                   oC \in anyOrders(EntriesOf(RootC)),
                   oB \in anyOrders(EntriesOf(RootB)) :
                    \A r \in {GetConfigFrom(log[k].dirs, <<oA, oC, oB>>)} :
                        /\ r.err = "" <=> log[k].err = ""
                        /\ r.cfg = log[k].cfg

\* The first toplevel directory has files in two subdirectories, which the
\* walker can visit in either order, and the call returned what both declare
C35_Witness ==
    /\ pc = "calls"
    /\ log # <<>>
    /\ log[1].pkg = "rkt/config"
    /\ log[1].err = ""
    /\ Cardinality(walkOrders(EntriesOf(RootA))) > 1
    /\ DOMAIN log[1].cfg.AuthPerHost # {}
    /\ log[1].cfg.Paths.DataDir # <<>>

----------------------------------------------------------------------------
(* What a step of the walk changes in the accumulators *)

\* The parser the file of log entry e went to
ParserOf(e) == parsersForKind[e.file.c.rktKind][e.file.c.rktVersion]

\* The list new is the list old, but at most for the accumulator of index i
\* and for empty accumulators added below it
OnlyIndexChanged(old, new, i) ==
    /\ Len(new) \in {Len(old), IF Len(old) <= i THEN i + 1 ELSE Len(old)}
    /\ \A k \in DOMAIN new :
         k # i + 1 => new[k] = (IF k \in DOMAIN old THEN old[k] ELSE newConfig)

\* C36: a step that hands a file of root index i to a parser changes, of
\* all accumulators, at most that parser's accumulator for index i in the
\* directory being walked, adding empty accumulators for the lower indices
\* the parser has none for; a step in which no parser is invoked changes no
\* accumulator.
C36_ParserFrame ==
    [][ IF Len(log') = Len(log) + 1 /\ log'[Len(log')].invoked
        THEN LET e == log'[Len(log')] IN
             \A t \in Trees, p \in Parsers :
                IF t = e.file.tree /\ p = ParserOf(e)
                THEN OnlyIndexChanged(accs[t][p], accs'[t][p], e.file.root)
                ELSE accs'[t][p] = accs[t][p]
        ELSE accs' = accs
      ]_vars

\* A parser holds what a file of the first toplevel directory declared, and
\* another one an empty accumulator for the first and a filled one for the
\* second toplevel directory
C36_Witness ==
    /\ Len(log) = 2
    /\ log[1].invoked /\ log[2].invoked
    /\ log[1].err = "" /\ log[2].err = ""
    /\ log[1].file.root = 0 /\ log[2].file.root = 1
    /\ ParserOf(log[1]) # ParserOf(log[2])
    /\ Len(accs["new"][ParserOf(log[1])]) = 1
    /\ accs["new"][ParserOf(log[1])][1] # newConfig
    /\ Len(accs["new"][ParserOf(log[2])]) = 2
    /\ accs["new"][ParserOf(log[2])][1] = newConfig
    /\ accs["new"][ParserOf(log[2])][2] # newConfig

(***************************************************************************)
(* rkt/config: resolutions over snapshots whose current-schema directories *)
(* hold entries that are no configuration files                            *)
(***************************************************************************)

SwitchFiles(r) ==
    { File(r, "new", "auth.d", NameA, "regular", c) :
        c \in { AuthC(<<"h1">>, "oauth", "", "", "t1"),
                AuthC(<<"h1">>, "basic", "u1", "", "") } }
    \cup { File(r, "new", "stage1.d", NameA, "regular", Stage1C("", "", <<>>)) }
    \cup { File(r, "new", "auth.d", NameC, "regular",
                AuthC(<<"h1">>, "oauth", "", "", "t1")),
           File(r, "new", "auth.d", NameB, "dir",
                AuthC(<<"h1">>, "oauth", "", "", "t1")),
           File(r, "new", "other.d", NameA, "regular",
                AuthC(<<"h1">>, "oauth", "", "", "t1")) }
    \cup { File(r, "old", "auth.d", NameA, "regular", c) :
        c \in { AuthC(<<"h1">>, "basic", "u1", "p1", ""),
                AuthC(<<"h2">>, "basic", "", "p1", "") } }
    \cup { File(r, "old", "paths.d", NameA, "regular", PathsC(AbsA, <<>>)) }

SwitchUniverse == UNION { SwitchFiles(r) : r \in Roots }

SwitchInit ==
    /\ fs \in { S \in SubsetsUpTo(SwitchUniverse, MaxFiles) : Snapshot(S) }
    /\ pc = "walkNew"
    /\ idx = 0
    /\ todo = {}
    /\ curSub = ""
    /\ accs = [t \in Trees |-> [p \in Parsers |-> <<>>]]
    /\ propagators = "none"
    /\ cfg = NoConfig
    /\ err = ""
    /\ log = <<>>
    /\ schema = "none"
    /\ nets = <<>>
    /\ infos = <<>>
    /\ netConfigs = <<>>
    /\ netCfg = NoConfig
    /\ netResults = {}
    /\ pluginConfigs = <<>>
    /\ propOpts = <<>>
    /\ pluginCfg = NoConfig
    /\ directory = ""
    /\ dirParsers = EmptyMap
    /\ dirSubdirs = EmptyMap
    /\ stat = EmptyMap
    /\ regLog = <<>>
    /\ pending = {}

SwitchSpec == SwitchInit /\ [][Next]_vars

\* The entries of a tree that are configuration files of a registered
\* subdirectory
CandidatesIn(tree) ==
    { f \in fs : /\ f.tree = tree
                 /\ f.subdir \in DOMAIN configSubdirs
                 /\ f.mode = "regular"
                 /\ Ext(f.fname) = ".json" }

\* A file of the tree was handed to a parser, which accepted it
Accepted(tree) ==
    \E j \in DOMAIN log :
        log[j].file.tree = tree /\ log[j].invoked /\ log[j].err = ""

FilesRead(tree) == { log[j].file : j \in { k \in DOMAIN log : log[k].file.tree = tree } }

\* C37: once the walk of the current-schema directories has ended well, the
\* current schema is selected exactly when one of their files was handed to
\* a parser and accepted; when they hold no candidate file (nothing, or only
\* files with another extension, nested directories and files of
\* unregistered subdirectories) every current-schema accumulator list stays
\* empty, the legacy schema is selected and the legacy directories are
\* walked.
C37_SchemaSwitch ==
    /\ propagators = "new" <=> (pc \in {"walkOld", "done"} /\ Accepted("new"))
    /\ propagators = "old" <=> (pc \in {"walkOld", "done", "failed"} /\ ~Accepted("new")
                                  /\ FilesRead("new") = {}
                                  /\ (pc = "failed" => FilesRead("old") # {}))
    /\ CandidatesIn("new") = {} =>
         /\ \A p \in Parsers : accs["new"][p] = <<>>
         /\ FilesRead("new") = {}
         /\ pc = "done" => propagators = "old" /\ FilesRead("old") = CandidatesIn("old")

\* The current-schema directories hold only an entry that is no candidate,
\* the legacy schema was selected and its file read and merged
C37_Witness ==
    /\ pc = "done"
    /\ propagators = "old"
    /\ \E f \in fs : f.tree = "new"
    /\ CandidatesIn("old") # {}
    /\ FilesRead("old") = CandidatesIn("old")
    /\ cfg = DeclaredConfig("old")
    /\ cfg # newConfig

----------------------------------------------------------------------------
(* The conf files of the resolved networks in the net directory of a pod *)

\* putConfInNetDir: the name under which the conf file of an entry is
\* written into the net directory
NetDirName(an) == Base(Deref(an).Runtime.ConfPath)

\* C38: after the merge of the current network files no two entries of
\* ordered have the same conf path base name, so no network's conf file in
\* the net directory of the pod is overwritten by that of another network.
C38_ConfPathBasesDistinct ==
    NetworkV1Resolved =>
        \A i, j \in DOMAIN Ordered :
            i # j => NetDirName(Ordered[i]) # NetDirName(Ordered[j])

(***************************************************************************)
(* networking/podenv.go: setupNets and teardownNets on a list of networks. *)
(* The list is netCfg.Networks.Ordered, fs is the net directory of the     *)
(* pod, idx is the variable i of setupNets, todo the slice teardownNets    *)
(* still has to go through, log the plugin runs.                           *)
(***************************************************************************)

\* podEnv.netDir
netDir == <<"pod", "net">>

\* The empty string as a path
NoPath == Path(<<>>, <<>>)

\* fmt.Sprintf(IfNamePattern, i)
IfName(i) == <<"IfNamePattern">> \o Decimal(i)

\* A variant that tears down the network whose setup failed as well
teardownArgThroughFailed(list, i) == SubSeq(list, 1, i + 1)

\* nets[:i], the argument of teardownNets in the deferred function
teardownArg(list, i) == SubSeq(list, 1, i)

\* The iterations of the loop of setupNets begun so far
SetupEvents == { j \in DOMAIN log : log[j].op = "setup" }
TeardownEvents == { j \in DOMAIN log : log[j].op = "teardown" }

\* setupNets up to the loop: os.MkdirAll, i := 0, defer
MkdirNetDir ==
    /\ pc = "setupNets"
    /\ \E ok \in BOOLEAN :
         IF ok
         THEN pc' = "range" /\ idx' = 0 /\ UNCHANGED err
         ELSE pc' = "returned" /\ err' = "mkdir" /\ UNCHANGED idx
    /\ UNCHANGED <<fs, todo, curSub, log>>
    /\ UNCHANGED <<cfgVars, netVars, pluginVars, dirVars>>

\* One iteration of the loop of setupNets: the interface name, the conf file
\* (putConfInNetDir), the plugin (netPluginAdd).  An error returns from
\* setupNets, and the deferred function calls teardownNets(nets[:i]).
SetupNet ==
    /\ pc = "range"
    /\ Cardinality(SetupEvents) < Len(Ordered)
    /\ \E outcome \in {"ok", "write", "add"} :
         LET k == Cardinality(SetupEvents)
             an == Ordered[k + 1]
             rt == nets[an].Runtime
             dst == Path(netDir, Base(infos[rt].ConfPath))
         IN
           /\ idx' = k
           /\ infos' = [infos EXCEPT ![rt].IfName = IfName(k),
                                     ![rt].ConfPath = IF outcome = "write" THEN NoPath
                                                      ELSE dst,
                                     ![rt].IP = IF outcome = "ok" THEN "ip" ELSE ""]
           /\ fs' = IF outcome = "write" THEN fs
                    ELSE { g \in fs : g.path # dst }
                           \cup { [path |-> dst, bytes |-> nets[an].ConfBytes] }
           /\ log' = Append(log, [op |-> "setup", pos |-> k, net |-> an,
                                  ifName |-> IfName(k), outcome |-> outcome])
           /\ IF outcome = "ok"
              THEN UNCHANGED <<pc, err, todo>>
              ELSE /\ err' = outcome
                   /\ pc' = "teardownNets"
                   /\ todo' = teardownArg(Ordered, k)
    /\ UNCHANGED <<curSub, schema, nets, netConfigs, netCfg, netResults>>
    /\ UNCHANGED <<cfgVars, pluginVars, dirVars>>

\* The loop of setupNets is through: return nil; the deferred function does
\* nothing
SetupReturn ==
    /\ pc = "range"
    /\ Cardinality(SetupEvents) = Len(Ordered)
    /\ pc' = "returned"
    /\ UNCHANGED <<fs, idx, todo, curSub, err, log>>
    /\ UNCHANGED <<cfgVars, netVars, pluginVars, dirVars>>

\* One iteration of the loop of teardownNets, from the end of its slice:
\* netPluginDel and os.Remove of the conf file, their errors only printed
TeardownNet ==
    /\ pc = "teardownNets"
    /\ todo # <<>>
    /\ \E del \in {"ok", "failed"}, remove \in {"ok", "failed"} :
         LET i == Len(todo) - 1
             an == todo[i + 1]
             path == infos[nets[an].Runtime].ConfPath
         IN
           /\ \A g \in fs : g.path # path => remove = "failed"
           /\ fs' = IF remove = "ok" THEN { g \in fs : g.path # path } ELSE fs
           /\ log' = Append(log, [op |-> "teardown", pos |-> i, net |-> an,
                                  del |-> del, remove |-> remove])
           /\ todo' = SubSeq(todo, 1, i)
    /\ UNCHANGED <<pc, idx, curSub, err>>
    /\ UNCHANGED <<cfgVars, netVars, pluginVars, dirVars>>

\* teardownNets is through, and setupNets returns its error
TeardownReturn ==
    /\ pc = "teardownNets"
    /\ todo = <<>>
    /\ pc' = "returned"
    /\ UNCHANGED <<fs, idx, todo, curSub, err, log>>
    /\ UNCHANGED <<cfgVars, netVars, pluginVars, dirVars>>

\* The conf path base names of the networks handed to setupNets
SetupBases == { <<"0", "0", "-", "a", ".conf">>, <<"9", "9", "-", "b", ".conf">> }

SetupNames == <<"foo", "bar", "baz">> \o [k \in 1 .. MaxNets |-> "net"]

\* setupNets is called on a list of up to MaxNets loaded networks
SetupInit ==
    /\ \E n \in 0 .. MaxNets : \E bases \in [1 .. n -> SetupBases] :
         /\ nets = [k \in 1 .. n |->
                      ActiveNet(<<"name", SetupNames[k], "type", "bridge">>,
                                NetConf(SetupNames[k], "bridge"), k)]
         /\ infos = [k \in 1 .. n |->
                      [NetName |-> SetupNames[k], ConfPath |-> Path(<<>>, bases[k]),
                       IfName |-> <<>>, IP |-> ""]]
         /\ netCfg = [Networks |-> [ByName |-> [name \in {} |-> 0],
                                    Ordered |-> [k \in 1 .. n |-> k]]]
    /\ fs = {}
    /\ pc = "setupNets"
    /\ idx = 0
    /\ todo = <<>>
    /\ curSub = ""
    /\ err = ""
    /\ log = <<>>
    /\ accs = [t \in Trees |-> [p \in Parsers |-> <<>>]]
    /\ propagators = "none"
    /\ cfg = NoConfig
    /\ schema = "none"
    /\ netConfigs = <<>>
    /\ netResults = {}
    /\ pluginConfigs = <<>>
    /\ propOpts = <<>>
    /\ pluginCfg = NoConfig
    /\ directory = ""
    /\ dirParsers = EmptyMap
    /\ dirSubdirs = EmptyMap
    /\ stat = EmptyMap
    /\ regLog = <<>>
    /\ pending = {}

SetupNext ==
    \/ MkdirNetDir
    \/ SetupNet
    \/ SetupReturn
    \/ TeardownNet
    \/ TeardownReturn

SetupSpec == SetupInit /\ [][SetupNext]_vars

\* The setup that failed, if one did
FailedSetups == { j \in SetupEvents : log[j].outcome # "ok" }

\* The positions of the teardowns, in the order they were run
RECURSIVE TeardownPositions(_)
TeardownPositions(j) ==
    IF j > Len(log) THEN <<>>
    ELSE IF log[j].op = "teardown" THEN <<log[j].pos>> \o TeardownPositions(j + 1)
    ELSE TeardownPositions(j + 1)

\* i - 1, i - 2, ..., 0
RECURSIVE Downwards(_)
Downwards(i) == IF i = 0 THEN <<>> ELSE <<i - 1>> \o Downwards(i - 1)

\* C39: setupNets sets the networks up in list order, the one at position k
\* with the interface name of number k, and stops at the first failure; once
\* it has returned after a failure at position i, teardown was run for the
\* positions i-1 down to 0, in this order and for no other, and the error is
\* returned; when no setup failed no teardown was run, and either every
\* network of the list was set up and nil is returned or the net directory
\* could not be made and nothing was set up.
C39_SetupTeardownOrder ==
    pc \in {"range", "teardownNets", "returned"} =>
        /\ \A j \in SetupEvents :
             /\ j = log[j].pos + 1
             /\ log[j].net = Ordered[j]
             /\ log[j].ifName = IfName(j - 1)
             /\ infos[nets[Ordered[j]].Runtime].IfName = IfName(j - 1)
             /\ j < Cardinality(SetupEvents) => log[j].outcome = "ok"
        /\ \A j \in TeardownEvents :
             /\ FailedSetups # {}
             /\ j > Cardinality(SetupEvents)
             /\ log[j].net = Ordered[log[j].pos + 1]
        /\ pc = "returned" =>
             IF FailedSetups # {}
             THEN /\ err # ""
                  /\ \A j \in FailedSetups :
                       TeardownPositions(1) = Downwards(log[j].pos)
             ELSE /\ TeardownEvents = {}
                  /\ err = "" => Cardinality(SetupEvents) = Len(Ordered)
                  /\ err # "" => err = "mkdir" /\ log = <<>>

\* The setup of the third of three networks failed, and the second and the
\* first were torn down, in this order
C39_Witness ==
    /\ pc = "returned"
    /\ Len(Ordered) = 3
    /\ Len(log) = 5
    /\ log[1].outcome = "ok" /\ log[2].outcome = "ok"
    /\ log[3].op = "setup" /\ log[3].outcome = "add"
    /\ log[4].op = "teardown" /\ log[4].pos = 1
    /\ log[5].op = "teardown" /\ log[5].pos = 0
    /\ err = "add"

====
